---- MODULE Spec2Model ----
(***************************************************************************)
(* Model of the troubleshooting agents of bertrand-deriv/boxFixer-agent.   *)
(*                                                                         *)
(* Part 1: the reflective engine of src/reflective_agent.py: the six node  *)
(* functions of the workflow (initialize_state, create_plan, propose_tool, *)
(* process_user_input, reflect, finish), the edges that create_agent adds  *)
(* between them, and the DevOpsTroubleshooter driver (start, step).        *)
(* In the file initialize_state is defined at module level, so that the    *)
(* definitions after its last return (create_plan ... workflow.compile())  *)
(* are unreachable as the file stands; the model reads them as what they   *)
(* are written to be, the nested definitions of create_agent.              *)
(* One call of the compiled workflow (invoke) runs the nodes from the      *)
(* entry point along the edges until END: there is no interrupt and no     *)
(* checkpoint, so every invocation starts at initialize_state.             *)
(* Part 2: execute_shell_command_tool of                                   *)
(* src/tools/command_executor_tool.py.                                     *)
(* Part 3: the plan-execution workflow of src/agent2.py: its nine node     *)
(* functions, the routing function determine_next, and main(), which runs  *)
(* one invocation from create_plan to END; the operator's answers are the  *)
(* values input() returns inside the nodes.                                *)
(* Part 4: get_service_troubleshooting_steps of                            *)
(* src/tools/get_troubleshooting_steps_tool.py.                            *)
(* Part 5: the session drivers: run_agent of src/agent.py and of           *)
(* src/llm_agent.py, and run_interactive_agent of src/reflective_agent.py. *)
(* Part 6: auto_troubleshoot_services_if_needed of                         *)
(* src/utils/troubleshoot_service_utility.py and src/agent.py.             *)
(* Part 7: check_service_status of src/tools/service_health_check_tool.py  *)
(* and src/service_health_check_tool.py.                                   *)
(*                                                                         *)
(* Strings are sequences of atoms.  An atom is a single character where    *)
(* the code looks at characters (delimiters, the letters of an operator    *)
(* answer, the letters of a shell command) and an opaque word where the    *)
(* code only copies or compares the text as a whole.                       *)
(***************************************************************************)
EXTENDS Integers, Sequences, FiniteSets, TLC

VARIABLES
    state,      \* the AgentState threaded through the running (or last) invocation
    node,       \* workflow position: "idle", a node name, "END" or "raised"
    steps,      \* supersteps taken by the running invocation
    session,    \* DevOpsTroubleshooter.state
    ret,        \* what the last start()/step() call returned
    entry,      \* the driver call that started the invocation
    pending,    \* proposed_tool of the session as it was shown to the operator
    executed,   \* spy on the tool registry: the tool functions called, in order
    counts,     \* spy: resolutions of pending proposals, by outcome
    command,    \* execute_shell_command_tool: its argument
    shell,      \* execute_shell_command_tool: "ready", or its outcome
    spawned,    \* spy on subprocess.run: has a subprocess been created
    event,      \* spy on subprocess.run: how the call ended (NoEvent: no call)
    a2,         \* agent2: the AgentState threaded through the invocation
    a2node,     \* agent2: workflow position: "off", a node name, "END" or "raised"
    a2steps,    \* agent2: supersteps taken by the invocation
    service_name,   \* get_service_troubleshooting_steps: its argument
    steps_info,     \* get_service_troubleshooting_steps: NotCalled, or what it returned
    drv,        \* the session driver (run_agent, run_interactive_agent): the
                \* program, where it is, and what it has shown the operator
    services,       \* auto_troubleshoot_services_if_needed: structured_output.services
    troubleshoot,   \* auto_troubleshoot_services_if_needed: NotCalled, or what it did
    probes,         \* check_service_status: what systemctl, docker and kubectl answer
    status_record   \* check_service_status: NotCalled, or what the call gave back

vars == <<state, node, steps, session, ret, entry, pending, executed, counts,
          command, shell, spawned, event, a2, a2node, a2steps,
          service_name, steps_info, drv, services, troubleshoot, probes, status_record>>

engineVars == <<state, node, steps, session, ret, entry, pending, executed, counts>>
shellVars == <<command, shell, spawned, event>>
agent2Vars == <<a2, a2node, a2steps>>
lookupVars == <<service_name, steps_info>>
driverVars == <<drv>>
reportVars == <<services, troubleshoot>>
healthVars == <<probes, status_record>>

-----------------------------------------------------------------------------
(* Bounds of the model *)

\* supersteps one invocation of the compiled workflow may take before the
\* graph runtime gives up (langgraph's recursion_limit, scaled down)
RecursionLimit == 8

\* longest tool_history of a session handed to step()
MaxHistory == 11

-----------------------------------------------------------------------------
(* Python string operations, on sequences of atoms *)

\* the first index at which sub occurs in s, 0 if none (str.find + 1)
Find(sub, s) ==
    LET hits == {i \in 1..(Len(s) - Len(sub) + 1) : SubSeq(s, i, i + Len(sub) - 1) = sub}
    IN IF hits = {} THEN 0 ELSE CHOOSE i \in hits : \A j \in hits : i <= j

\* sub in s
Contains(sub, s) == Find(sub, s) # 0

\* s.split(sub)[0]
SplitHead(sub, s) == IF Find(sub, s) = 0 THEN s ELSE SubSeq(s, 1, Find(sub, s) - 1)

\* what follows the first occurrence of sub in s (defined when sub in s)
SplitRest(sub, s) == SubSeq(s, Find(sub, s) + Len(sub), Len(s))

\* len(s.split(sub)) > 1, that is s.split(sub)[1] does not raise IndexError
HasSecond(sub, s) == Contains(sub, s)

\* s.split(sub)[1]
SplitSecond(sub, s) == SplitHead(sub, SplitRest(sub, s))

\* s.split(sub), the whole list
RECURSIVE SplitAll(_, _)
SplitAll(sub, s) ==
    IF Find(sub, s) = 0 THEN <<s>>
    ELSE <<SplitHead(sub, s)>> \o SplitAll(sub, SplitRest(sub, s))

Whitespace == {" ", "\n"}

\* s.strip()
RECURSIVE LStrip(_)
LStrip(s) == IF s # <<>> /\ Head(s) \in Whitespace THEN LStrip(Tail(s)) ELSE s

RECURSIVE RStrip(_)
RStrip(s) ==
    IF s # <<>> /\ s[Len(s)] \in Whitespace THEN RStrip(SubSeq(s, 1, Len(s) - 1)) ELSE s

Strip(s) == RStrip(LStrip(s))

\* s.replace(c, "") for a one-character c
RECURSIVE Remove(_, _)
Remove(c, s) ==
    IF s = <<>> THEN <<>>
    ELSE IF Head(s) = c THEN Remove(c, Tail(s))
    ELSE <<Head(s)>> \o Remove(c, Tail(s))

\* str.lower() of one atom
LowerAtom(a) ==
    CASE a = "Y" -> "y" [] a = "E" -> "e" [] a = "S" -> "s"
      [] a = "R" -> "r" [] a = "M" -> "m" [] a = "D" -> "d"
      [] a = "Need" -> "need" [] a = "More" -> "more"
      [] a = "Information" -> "information"
      [] a = "SHOULD" -> "should" [] a = "CONTINUE" -> "continue"
      [] a = "Yes" -> "yes" [] a = "Next" -> "next" [] a = "Top" -> "top"
      [] a = "Quit" -> "quit" [] a = "EXIT" -> "exit"
      [] a = "Error" -> "error" [] a = "Running" -> "running"
      [] OTHER -> a

\* s.lower()
Lower(s) == [i \in 1..Len(s) |-> LowerAtom(s[i])]

-----------------------------------------------------------------------------
(* The reflective engine: constants, messages, model outputs *)

MAX_TOOL_CALLS_BEFORE_REFLECT == 5
MAX_TOTAL_TOOL_CALLS == 10

Statuses == {"planning", "executing", "reflecting", "finished", "awaiting_approval"}

HumanMessage(c) == [type |-> "human", content |-> c]
AIMessage(c) == [type |-> "ai", content |-> c]

\* Python's None, where a string is expected
None == <<"<None>">>

\* DevOpsTroubleshooter.state before start()
NoSession == [status |-> "none"]

Problem == <<"nginx returning 502s">>

\* the atom "<fence>" is the three backquotes of a code fence
Fence == <<"<fence>">>
FenceTool == <<"<fence>", "tool">>

\* what the model may answer to the planning prompt: a plan, or no step at all
PlanOutputs == {<<"1.", " ", "check", " ", "logs">>, <<"I", " ", "cannot", " ", "plan">>}

\* what the model may answer to the execution prompt
NoToolOutput == <<"No", " ", "further", " ", "action">>
EmptyFenceOutput == FenceTool \o <<"\n">> \o Fence
LogsCall == <<"analyze_logs", "(", "'", "nginx", "'", ")">>
ResourcesCall == <<"check_system_resources", "(", ")">>
NetworkCall == <<"check_network_connectivity", "(", "web", ",", " ", "db", ")">>
BareCall == <<"analyze_logs">>
ArityCall == <<"check_network_connectivity", "(", "web", ")">>
UnknownCall == <<"restart_service", "(", "nginx", ")">>
\* a shell command, character by character: rm -rf /var/lib/data
ShellCall ==
    <<"r", "m", " ", "-", "r", "f", " ", "/", "v", "a", "r", "/", "l", "i", "b", "/",
      "d", "a", "t", "a">>

Fenced(call) == <<"Next", ":", "\n">> \o FenceTool \o <<"\n">> \o call \o <<"\n">> \o Fence

ProposeOutputs ==
    {NoToolOutput, EmptyFenceOutput} \cup
    {Fenced(c) : c \in {LogsCall, ResourcesCall, NetworkCall, BareCall, ArityCall,
                         UnknownCall, ShellCall}}

\* what the model may answer to the reflection prompt
ReflectOutputs ==
    { <<"Root", " ", "cause", " ", "found">>,
      <<"I", " ", "Need", " ", "More", " ", "Information">>,
      <<"we", " ", "SHOULD", " ", "CONTINUE">> }

\* what the model may answer to the final prompt
FinalOutputs == {<<"Diagnosis", ":", " ", "upstream", " ", "down">>}

\* what the operator may type at the approval prompt
UserInputs ==
    { <<>>, <<"n", "o">>, <<"Y", "E", "S">>, <<"a", "p", "p", "r", "o", "v", "e">> }

-----------------------------------------------------------------------------
(* The tools, as process_user_input calls them *)

RegisteredTools ==
    {"check_system_resources", "analyze_logs", "check_network_connectivity",
     "check_container_status", "check_service_status", "validate_configuration"}

\* the text a tool returns
ToolReturn(name, args) == <<"<output of ", name, ">">>

\* tool_call.split("(")[0].strip()
ToolName(tool_call) == Strip(SplitHead(<<"(">>, tool_call))

\* tool_call.split("(")[1].split(")")[0]
ParamText(tool_call) == SplitHead(<<")">>, SplitSecond(<<"(">>, tool_call))

\* .replace('"', '').replace("'", "")
Unquote(s) == Remove("'", Remove("\"", s))

\* [p.strip().replace('"', '').replace("'", "") for p in params.split(",")]
NetworkParams(tool_call) ==
    LET parts == SplitAll(<<",">>, ParamText(tool_call))
    IN [i \in 1..Len(parts) |-> Unquote(Strip(parts[i]))]

\* one call of a registered tool: it returns its text or raises
Invoke(name, args, raises) ==
    IF raises
    THEN [raised |-> TRUE, text |-> <<"ToolException">>, called |-> <<<<name, args>>>>]
    ELSE [raised |-> FALSE, text |-> ToolReturn(name, args), called |-> <<<<name, args>>>>]

\* an exception raised before any tool is called
Raise(e) == [raised |-> TRUE, text |-> <<e>>, called |-> <<>>]

\* the if/elif chain inside the try block of process_user_input
Dispatch(tool_call, raises) ==
    LET tool_name == ToolName(tool_call)
    IN IF tool_name = <<"check_system_resources">>
       THEN Invoke("check_system_resources", <<>>, raises)
       ELSE IF tool_name \in {<<"analyze_logs">>, <<"check_container_status">>,
                              <<"check_service_status">>, <<"validate_configuration">>}
       THEN IF ~HasSecond(<<"(">>, tool_call)
            THEN Raise("IndexError")
            ELSE Invoke(tool_name[1], <<Unquote(ParamText(tool_call))>>, raises)
       ELSE IF tool_name = <<"check_network_connectivity">>
       THEN IF ~HasSecond(<<"(">>, tool_call)
            THEN Raise("IndexError")
            ELSE IF Len(NetworkParams(tool_call)) # 2
            THEN Raise("ValueError")
            ELSE Invoke("check_network_connectivity", NetworkParams(tool_call), raises)
       ELSE [raised |-> FALSE, text |-> <<"Unknown tool: ">> \o tool_name, called |-> <<>>]

-----------------------------------------------------------------------------
(* The node functions of the workflow *)

initialize_state(s) ==
    IF s.messages = <<>> THEN s
    ELSE LET last_message == s.messages[Len(s.messages)]
         IN IF last_message.type = "human" /\ s.status # "awaiting_approval"
            THEN [messages |-> s.messages,
                  status |-> "planning",
                  current_plan |-> <<>>,
                  reflection |-> <<>>,
                  tool_history |-> <<>>,
                  problem_understanding |-> last_message.content,
                  proposed_tool |-> <<>>,
                  user_input |-> <<>>]
            ELSE s

\* create_plan returning the plan as the whole transcript
create_plan_FreshTranscript(s, response) ==
    [s EXCEPT !.messages = <<AIMessage(response)>>,
              !.status = "executing",
              !.current_plan = response,
              !.proposed_tool = <<>>]

create_plan(s, response) ==
    [s EXCEPT !.messages = Append(s.messages, AIMessage(response)),
              !.status = "executing",
              !.current_plan = response,
              !.proposed_tool = <<>>]

\* the fenced text taken as it stands, without .strip()
ParseToolCall_NoStrip(content) ==
    IF Contains(FenceTool, content)
    THEN SplitHead(Fence, SplitSecond(FenceTool, content))
    ELSE <<>>

\* the tool call propose_tool reads out of the model's answer; <<>> when it finds none
ParseToolCall(content) ==
    IF Contains(FenceTool, content)
    THEN Strip(SplitHead(Fence, SplitSecond(FenceTool, content)))
    ELSE <<>>

\* propose_tool with `if tool_call is not None or True`: every answer is a proposal
propose_tool_AlwaysAwaits(s, response) ==
    [s EXCEPT !.messages = Append(s.messages, AIMessage(response)),
              !.status = "awaiting_approval",
              !.proposed_tool = ParseToolCall(response)]

propose_tool(s, response) ==
    LET tool_call == ParseToolCall(response)
    IN IF tool_call # <<>>
       THEN [s EXCEPT !.messages = Append(s.messages, AIMessage(response)),
                      !.status = "awaiting_approval",
                      !.proposed_tool = tool_call]
       ELSE [s EXCEPT !.messages = Append(s.messages, AIMessage(response)),
                      !.status = "reflecting",
                      !.proposed_tool = <<>>]

\* "approve" in user_input.lower() or "yes" in user_input.lower()
IsApproval(user_input) ==
    \/ Contains(<<"a", "p", "p", "r", "o", "v", "e">>, Lower(user_input))
    \/ Contains(<<"y", "e", "s">>, Lower(user_input))

ResultRecord(tool_call, result) == <<"Tool: ">> \o tool_call \o <<"\nResult: ">> \o result
ErrorRecord(tool_call, e) == <<"Tool: ">> \o tool_call \o <<"\nError: ">> \o e
DeniedRecord(tool_call) == <<"Tool: ">> \o tool_call \o <<"\nStatus: Execution denied by user">>

\* the threshold read as `len(tool_history) <= 5`
StatusAfterResult_Inclusive(tool_history) ==
    IF Len(tool_history) <= MAX_TOOL_CALLS_BEFORE_REFLECT THEN "executing" ELSE "reflecting"

\* the status after an approved tool has returned
StatusAfterResult(tool_history) ==
    IF Len(tool_history) < MAX_TOOL_CALLS_BEFORE_REFLECT THEN "executing" ELSE "reflecting"

\* the tool called before the operator's answer is looked at
ToolsCalled_Ungated(s, raises) ==
    IF s.status = "awaiting_approval" THEN Dispatch(s.proposed_tool, raises).called ELSE <<>>

\* the tool functions process_user_input calls on s
ToolsCalled(s, raises) ==
    IF s.status = "awaiting_approval" /\ IsApproval(s.user_input)
    THEN Dispatch(s.proposed_tool, raises).called
    ELSE <<>>

\* how process_user_input resolves s: "ok", "error", "denied", or "none"
Resolution(s, raises) ==
    IF s.status # "awaiting_approval" THEN "none"
    ELSE IF ~IsApproval(s.user_input) THEN "denied"
    ELSE IF Dispatch(s.proposed_tool, raises).raised THEN "error"
    ELSE "ok"

\* a handler written as `except ValueError`
Caught_ValueErrorOnly(e) == e = <<"ValueError">>

\* except Exception as e: the exceptions the handler of process_user_input catches
Caught(e) == TRUE

\* the branches of process_user_input with a denial subject to the threshold
\* of the approve branch
ResolveProposal_DenialCapped(s, raises) ==
    LET tool_call == s.proposed_tool
        out == Dispatch(tool_call, raises)
        denied == Append(s.tool_history, DeniedRecord(tool_call))
    IN IF IsApproval(s.user_input)
       THEN IF ~out.raised
            THEN LET tool_history ==
                         Append(s.tool_history, ResultRecord(tool_call, out.text))
                 IN [tool_history |-> tool_history,
                     updated_messages |->
                         Append(s.messages, HumanMessage(<<"Tool result: ">> \o out.text)),
                     next_status |-> StatusAfterResult(tool_history)]
            ELSE [tool_history |-> Append(s.tool_history, ErrorRecord(tool_call, out.text)),
                  updated_messages |->
                      Append(s.messages,
                             HumanMessage(<<"Error executing tool: ">> \o out.text)),
                  next_status |-> "reflecting"]
       ELSE [tool_history |-> denied,
             updated_messages |->
                 Append(s.messages, HumanMessage(<<"Tool execution denied: ">> \o tool_call)),
             next_status |-> StatusAfterResult(denied)]

\* the branches of process_user_input for a pending proposal: each sets
\* tool_history, updated_messages and next_status
ResolveProposal(s, raises) ==
    LET tool_call == s.proposed_tool
        out == Dispatch(tool_call, raises)
    IN IF IsApproval(s.user_input)
       THEN IF ~out.raised
            THEN LET tool_history ==
                         Append(s.tool_history, ResultRecord(tool_call, out.text))
                 IN [tool_history |-> tool_history,
                     updated_messages |->
                         Append(s.messages, HumanMessage(<<"Tool result: ">> \o out.text)),
                     next_status |-> StatusAfterResult(tool_history)]
            ELSE [tool_history |-> Append(s.tool_history, ErrorRecord(tool_call, out.text)),
                  updated_messages |->
                      Append(s.messages,
                             HumanMessage(<<"Error executing tool: ">> \o out.text)),
                  next_status |-> "reflecting"]
       ELSE [tool_history |-> Append(s.tool_history, DeniedRecord(tool_call)),
             updated_messages |->
                 Append(s.messages, HumanMessage(<<"Tool execution denied: ">> \o tool_call)),
             next_status |-> "executing"]

\* process_user_input returning state["tool_history"] for a denial
process_user_input_DropsDenial(s, raises) ==
    IF s.status = "awaiting_approval"
    THEN LET r == ResolveProposal(s, raises)
         IN [s EXCEPT !.messages = r.updated_messages,
                      !.status = r.next_status,
                      !.tool_history = IF IsApproval(s.user_input)
                                       THEN r.tool_history ELSE s.tool_history,
                      !.proposed_tool = <<>>,
                      !.user_input = <<>>]
    ELSE s

\* process_user_input consuming user_input whatever the status is
process_user_input_AlwaysConsumes(s, raises) ==
    IF s.status = "awaiting_approval"
    THEN LET r == ResolveProposal(s, raises)
         IN [s EXCEPT !.messages = r.updated_messages,
                      !.status = r.next_status,
                      !.tool_history = r.tool_history,
                      !.proposed_tool = <<>>,
                      !.user_input = <<>>]
    ELSE [s EXCEPT !.user_input = <<>>]

process_user_input(s, raises) ==
    IF s.status = "awaiting_approval"
    THEN LET r == ResolveProposal(s, raises)
         IN [s EXCEPT !.messages = r.updated_messages,
                      !.status = r.next_status,
                      !.tool_history = r.tool_history,
                      !.proposed_tool = <<>>,
                      !.user_input = <<>>]
    ELSE s

\* an exception of the try block that the handler does not catch leaves
\* process_user_input, and the invocation with it
Escapes(s, raises) ==
    /\ s.status = "awaiting_approval"
    /\ IsApproval(s.user_input)
    /\ Dispatch(s.proposed_tool, raises).raised
    /\ ~Caught(Dispatch(s.proposed_tool, raises).text)

\* need_more_info without .lower()
NeedMoreInfo_CaseSensitive(content) ==
    \/ Contains(<<"need", " ", "more", " ", "information">>, content)
    \/ Contains(<<"should", " ", "continue">>, content)

\* need_more_info
NeedMoreInfo(content) ==
    \/ Contains(<<"need", " ", "more", " ", "information">>, Lower(content))
    \/ Contains(<<"should", " ", "continue">>, Lower(content))

\* the decision of reflect without the cap on len(tool_history)
ReflectStatus_NoCap(content, tool_history) ==
    IF NeedMoreInfo(content) THEN "executing" ELSE "finished"

\* the status reflect decides on
ReflectStatus(content, tool_history) ==
    IF NeedMoreInfo(content) /\ Len(tool_history) < MAX_TOTAL_TOOL_CALLS
    THEN "executing" ELSE "finished"

\* reflect returning an empty tool_history
reflect_ResetsHistory(s, response) ==
    [s EXCEPT !.messages = Append(s.messages, AIMessage(response)),
              !.status = ReflectStatus(response, s.tool_history),
              !.reflection = response,
              !.tool_history = <<>>,
              !.proposed_tool = <<>>]

reflect(s, response) ==
    [s EXCEPT !.messages = Append(s.messages, AIMessage(response)),
              !.status = ReflectStatus(response, s.tool_history),
              !.reflection = response,
              !.proposed_tool = <<>>]

finish(s, response) ==
    [s EXCEPT !.messages = Append(s.messages, AIMessage(response)),
              !.status = "finished",
              !.proposed_tool = <<>>]

-----------------------------------------------------------------------------
(* The edges of the workflow *)

Nodes == {"initialize_state", "create_plan", "propose_tool", "process_user_input",
          "reflect", "finish"}

\* conditional edges that map reflecting to END
AfterProcessUserInput_ReflectingEnds(status) ==
    CASE status = "executing" -> "propose_tool"
      [] status = "reflecting" -> "END"
      [] status = "awaiting_approval" -> "process_user_input"
      [] OTHER -> "raised"

\* the conditional edges out of process_user_input; a status without an edge
\* makes the graph runtime raise
AfterProcessUserInput(status) ==
    CASE status = "executing" -> "propose_tool"
      [] status = "reflecting" -> "reflect"
      [] status = "awaiting_approval" -> "process_user_input"
      [] OTHER -> "raised"

\* the conditional edges out of reflect
AfterReflect(status) ==
    CASE status = "executing" -> "propose_tool"
      [] status = "finished" -> "finish"
      [] OTHER -> "raised"

-----------------------------------------------------------------------------
(* DevOpsTroubleshooter: the sessions it holds *)

\* the AgentState start() hands to the workflow
StartInput(problem_description) ==
    [messages |-> <<HumanMessage(problem_description)>>,
     status |-> "planning",
     current_plan |-> <<>>,
     reflection |-> <<>>,
     tool_history |-> <<>>,
     problem_understanding |-> <<>>,
     proposed_tool |-> <<>>,
     user_input |-> <<>>]

\* _get_latest_ai_message
RECURSIVE LatestAIMessage(_)
LatestAIMessage(messages) ==
    IF messages = <<>> THEN None
    ELSE IF messages[Len(messages)].type = "ai" THEN messages[Len(messages)].content
    ELSE LatestAIMessage(SubSeq(messages, 1, Len(messages) - 1))

\* _get_status_message
StatusMessage(s) ==
    IF s.status = "awaiting_approval"
    THEN <<"\n=== APPROVAL REQUIRED ===\nTool to execute: ">> \o s.proposed_tool
         \o <<"\nDo you approve this command? (yes/no): ">>
    ELSE IF s.status = "finished" THEN <<"\n=== TROUBLESHOOTING COMPLETED ===">>
    ELSE <<>>

\* The sessions a caller may hold when it calls step(): snapshots of the
\* AgentState as the workflow threads it, after n proposals were resolved as
\* denied: before the n+1st proposal is resolved, and after the session finished.
Planned ==
    create_plan(initialize_state(StartInput(Problem)), <<"1.", " ", "check", " ", "logs">>)

RECURSIVE Denied(_)
Denied(n) ==
    IF n = 0 THEN Planned
    ELSE process_user_input(propose_tool(Denied(n - 1), Fenced(LogsCall)), FALSE)

Pending(n) == propose_tool(Denied(n), Fenced(LogsCall))

Finished(n) ==
    finish(reflect(process_user_input(propose_tool(Denied(n), NoToolOutput), FALSE),
                   CHOOSE r \in ReflectOutputs : ~NeedMoreInfo(r)),
           CHOOSE f \in FinalOutputs : TRUE)

NoCounts == [ok |-> 0, denied |-> 0, error |-> 0]

EngineInit ==
    /\ node = "idle"
    /\ steps = 0
    /\ ret = None
    /\ entry = "none"
    /\ pending = <<>>
    /\ executed = <<>>
    /\ \/ /\ session = NoSession
          /\ state = NoSession
          /\ counts = NoCounts
       \/ \E n \in 0..MaxHistory :
            /\ session \in {Pending(n), Finished(n)}
            /\ state = session
            /\ counts = [NoCounts EXCEPT !.denied = n]

\* subprocess.run has not been called
NoEvent == [exc |-> "none", returncode |-> "none", stdout |-> <<>>, stderr |-> <<>>]

ShellIdle ==
    /\ command = <<>>
    /\ shell = "ready"
    /\ spawned = FALSE
    /\ event = NoEvent

\* agent2 is not running
NoAgent2 == [current_state |-> "none"]

Agent2Off ==
    /\ a2 = NoAgent2
    /\ a2node = "off"
    /\ a2steps = 0

\* get_service_troubleshooting_steps has not been called
NotCalled == [kind |-> "not called"]

LookupIdle ==
    /\ service_name = <<>>
    /\ steps_info = NotCalled

\* no session driver is running
NoDriver == [program |-> "none"]

DriverOff == drv = NoDriver

\* neither auto_troubleshoot_services_if_needed nor check_service_status
\* has been called
ToolsIdle ==
    /\ services = <<>>
    /\ troubleshoot = NotCalled
    /\ probes = <<>>
    /\ status_record = NotCalled

Init == EngineInit /\ ShellIdle /\ Agent2Off /\ LookupIdle /\ DriverOff /\ ToolsIdle

-----------------------------------------------------------------------------
(* The driver's calls and the steps of one invocation *)

\* DevOpsTroubleshooter.start, up to the call of the workflow
Start ==
    /\ node = "idle"
    /\ session = NoSession
    /\ state' = StartInput(Problem)
    /\ node' = "initialize_state"
    /\ steps' = 0
    /\ entry' = "start"
    /\ UNCHANGED <<session, ret, pending, executed, counts>>
    /\ UNCHANGED shellVars
    /\ UNCHANGED agent2Vars
    /\ UNCHANGED <<lookupVars, driverVars, reportVars, healthVars>>

\* step without its check of status == "finished"
Step_NoFinishedCheck(user_input) ==
    /\ node = "idle"
    /\ session # NoSession
    /\ state' = IF user_input # None
                THEN [session EXCEPT !.user_input = user_input]
                ELSE session
    /\ node' = "initialize_state"
    /\ steps' = 0
    /\ entry' = "step"
    /\ pending' = session.proposed_tool
    /\ UNCHANGED <<ret, session, executed, counts>>
    /\ UNCHANGED shellVars
    /\ UNCHANGED agent2Vars
    /\ UNCHANGED <<lookupVars, driverVars, reportVars, healthVars>>

\* DevOpsTroubleshooter.step, up to the call of the workflow;
\* user_input is None or what the operator typed
Step(user_input) ==
    /\ node = "idle"
    /\ session # NoSession
    /\ IF session.status = "finished"
       THEN /\ ret' = LatestAIMessage(session.messages)
            /\ UNCHANGED <<state, node, steps, entry, pending>>
       ELSE /\ state' = IF user_input # None
                        THEN [session EXCEPT !.user_input = user_input]
                        ELSE session
            /\ node' = "initialize_state"
            /\ steps' = 0
            /\ entry' = "step"
            /\ pending' = session.proposed_tool
            /\ UNCHANGED ret
    /\ UNCHANGED <<session, executed, counts>>
    /\ UNCHANGED shellVars
    /\ UNCHANGED agent2Vars
    /\ UNCHANGED <<lookupVars, driverVars, reportVars, healthVars>>

\* one superstep of the running invocation is allowed
CanRun(n) == node = n /\ steps < RecursionLimit

InitializeState ==
    /\ CanRun("initialize_state")
    /\ state' = initialize_state(state)
    /\ counts' = IF state'.tool_history = <<>> THEN NoCounts ELSE counts
    /\ node' = "create_plan"
    /\ steps' = steps + 1
    /\ UNCHANGED <<session, ret, entry, pending, executed>>
    /\ UNCHANGED shellVars
    /\ UNCHANGED agent2Vars
    /\ UNCHANGED <<lookupVars, driverVars, reportVars, healthVars>>

CreatePlan ==
    /\ CanRun("create_plan")
    /\ \E response \in PlanOutputs : state' = create_plan(state, response)
    /\ node' = "propose_tool"
    /\ steps' = steps + 1
    /\ UNCHANGED <<session, ret, entry, pending, executed, counts>>
    /\ UNCHANGED shellVars
    /\ UNCHANGED agent2Vars
    /\ UNCHANGED <<lookupVars, driverVars, reportVars, healthVars>>

ProposeTool ==
    /\ CanRun("propose_tool")
    /\ \E response \in ProposeOutputs : state' = propose_tool(state, response)
    /\ node' = "process_user_input"
    /\ steps' = steps + 1
    /\ UNCHANGED <<session, ret, entry, pending, executed, counts>>
    /\ UNCHANGED shellVars
    /\ UNCHANGED agent2Vars
    /\ UNCHANGED <<lookupVars, driverVars, reportVars, healthVars>>

\* the resolution counted by outcome
Counted(c, outcome) ==
    IF outcome = "none" THEN c ELSE [c EXCEPT ![outcome] = c[outcome] + 1]

ProcessUserInput ==
    /\ CanRun("process_user_input")
    /\ \E raises \in BOOLEAN :
         /\ executed' = executed \o ToolsCalled(state, raises)
         /\ IF Escapes(state, raises)
            THEN /\ node' = "raised"
                 /\ UNCHANGED <<state, counts>>
            ELSE /\ state' = process_user_input(state, raises)
                 /\ counts' = Counted(counts, Resolution(state, raises))
                 /\ node' = AfterProcessUserInput(state'.status)
    /\ steps' = steps + 1
    /\ UNCHANGED <<session, ret, entry, pending>>
    /\ UNCHANGED shellVars
    /\ UNCHANGED agent2Vars
    /\ UNCHANGED <<lookupVars, driverVars, reportVars, healthVars>>

Reflect ==
    /\ CanRun("reflect")
    /\ \E response \in ReflectOutputs : state' = reflect(state, response)
    /\ node' = AfterReflect(state'.status)
    /\ steps' = steps + 1
    /\ UNCHANGED <<session, ret, entry, pending, executed, counts>>
    /\ UNCHANGED shellVars
    /\ UNCHANGED agent2Vars
    /\ UNCHANGED <<lookupVars, driverVars, reportVars, healthVars>>

Finish ==
    /\ CanRun("finish")
    /\ \E response \in FinalOutputs : state' = finish(state, response)
    /\ node' = "END"
    /\ steps' = steps + 1
    /\ UNCHANGED <<session, ret, entry, pending, executed, counts>>
    /\ UNCHANGED shellVars
    /\ UNCHANGED agent2Vars
    /\ UNCHANGED <<lookupVars, driverVars, reportVars, healthVars>>

\* the graph runtime stops an invocation that has not reached END within its
\* recursion limit: invoke raises, and start()/step() with it
RecursionError ==
    /\ node \in Nodes
    /\ steps >= RecursionLimit
    /\ node' = "raised"
    /\ UNCHANGED <<state, steps, session, ret, entry, pending, executed, counts>>
    /\ UNCHANGED shellVars
    /\ UNCHANGED agent2Vars
    /\ UNCHANGED <<lookupVars, driverVars, reportVars, healthVars>>

\* the workflow reached END: start()/step() store the result and return
Return ==
    /\ node = "END"
    /\ session' = state
    /\ ret' = IF entry = "start"
              THEN LatestAIMessage(state.messages)
              ELSE LatestAIMessage(state.messages) \o StatusMessage(state)
    /\ node' = "idle"
    /\ UNCHANGED <<state, steps, entry, pending, executed, counts>>
    /\ UNCHANGED shellVars
    /\ UNCHANGED agent2Vars
    /\ UNCHANGED <<lookupVars, driverVars, reportVars, healthVars>>

Next ==
    \/ Start
    \/ \E user_input \in UserInputs \cup {None} : Step(user_input)
    \/ InitializeState
    \/ CreatePlan
    \/ ProposeTool
    \/ ProcessUserInput
    \/ Reflect
    \/ Finish
    \/ RecursionError
    \/ Return

Spec == Init /\ [][Next]_vars

-----------------------------------------------------------------------------
(* execute_shell_command_tool (src/tools/command_executor_tool.py) *)

\* longest command of the model, in words
MaxWords == 2

\* the characters that are not word characters (\w) of a regular expression
NonWordChars == {" ", "\t", "\n", "-", ">", "/", ".", "=", "|", ";"}
IsWordChar(c) == c \notin NonWordChars

\* the characters \s matches
IsSpace(c) == c \in {" ", "\t", "\n"}

\* w occurs in s at index i
At(w, s, i) == i >= 1 /\ i + Len(w) - 1 <= Len(s) /\ SubSeq(s, i, i + Len(w) - 1) = w

\* \b before a word character at index i, and after a word character at index j
BoundaryBefore(s, i) == i = 1 \/ ~IsWordChar(s[i - 1])
BoundaryAfter(s, j) == j = Len(s) \/ ~IsWordChar(s[j + 1])

\* s[i..j] is made of \s characters only (empty when j < i)
AllSpace(s, i, j) == \A k \in i..j : IsSpace(s[k])

\* re.search(r'\bw\b', s, re.IGNORECASE), w made of word characters
MatchWord(w, s) ==
    LET l == Lower(s)
    IN \E i \in 1..Len(l) :
         At(w, l, i) /\ BoundaryBefore(l, i) /\ BoundaryAfter(l, i + Len(w) - 1)

\* re.search(r'\bw1\s+w2\b', s, re.IGNORECASE), w1 beginning and w2 ending
\* with a word character
MatchWordGapWord(w1, w2, s) ==
    LET l == Lower(s)
    IN \E i \in 1..Len(l) : \E j \in (i + Len(w1) + 1)..Len(l) :
         /\ At(w1, l, i) /\ BoundaryBefore(l, i)
         /\ AllSpace(l, i + Len(w1), j - 1)
         /\ At(w2, l, j) /\ BoundaryAfter(l, j + Len(w2) - 1)

\* re.search(r'>\s*dir', s, re.IGNORECASE)
MatchRedirect(dir, s) ==
    LET l == Lower(s)
    IN \E i \in 1..Len(l) : \E j \in (i + 1)..Len(l) :
         l[i] = ">" /\ AllSpace(l, i + 1, j - 1) /\ At(dir, l, j)

\* dangerous_patterns, and the any(re.search(...)) over them
MatchesDenyList(cmd) ==
    \/ MatchWordGapWord(<<"r", "m">>, <<"-", "r", "f">>, cmd)
    \/ MatchWord(<<"d", "d">>, cmd)
    \/ MatchWord(<<"m", "k", "f", "s">>, cmd)
    \/ MatchWordGapWord(<<"c", "h", "m", "o", "d">>, <<"7", "7", "7">>, cmd)
    \/ MatchWord(<<"c", "h", "o", "w", "n">>, cmd)
    \/ MatchWord(<<"m", "k", "s", "w", "a", "p">>, cmd)
    \/ MatchRedirect(<<"/", "d", "e", "v", "/">>, cmd)
    \/ MatchRedirect(<<"/", "e", "t", "c", "/">>, cmd)
    \/ MatchRedirect(<<"/", "s", "y", "s", "/">>, cmd)
    \/ MatchRedirect(<<"/", "p", "r", "o", "c", "/">>, cmd)
    \/ MatchRedirect(<<"/", "b", "o", "o", "t", "/">>, cmd)

\* the words commands are made of
CommandWords ==
    { <<"r", "m">>,
      <<"R", "M">>,
      <<"-", "r", "f">>,
      <<"-", "r", "f", "v">>,
      <<"d", "d">>,
      <<"a", "d", "d">>,
      <<"m", "k", "f", "s">>,
      <<"c", "h", "m", "o", "d">>,
      <<"7", "7", "7">>,
      <<"c", "h", "o", "w", "n">>,
      <<"m", "k", "s", "w", "a", "p">>,
      <<">">>,
      <<"/", "d", "e", "v", "/", "s", "d", "a">>,
      <<"/", "e", "t", "c", "/", "p", "a", "s", "s", "w", "d">>,
      <<"/", "s", "y", "s", "/", "k">>,
      <<"/", "p", "r", "o", "c", "/", "1">>,
      <<"/", "b", "o", "o", "t", "/", "k">>,
      <<"l", "s">>,
      <<"/", "t", "m", "p", "/", "x">> }

\* the command strings of the spec's examples
DenyListExamples ==
    { <<"r", "m", " ", "-", "r", "f", " ", "/">>,
      <<"c", "h", "m", "o", "d", " ", "7", "7", "7", " ", "/", "e", "t", "c", "/", "p", "a", "s", "s", "w", "d">>,
      <<"d", "d", " ", "i", "f", "=", "/", "d", "e", "v", "/", "z", "e", "r", "o", " ", "o", "f", "=", "/", "d", "e", "v", "/", "s", "d", "a">> }

\* words joined by single spaces
RECURSIVE Join(_)
Join(words) ==
    IF Len(words) = 1 THEN words[1] ELSE words[1] \o <<" ">> \o Join(Tail(words))

WordLists == UNION {[1..n -> CommandWords] : n \in 1..MaxWords}

Commands == {Join(ws) : ws \in WordLists} \cup DenyListExamples

Ready == <<"ready">>
BlockedOutcome == <<"Error: Command blocked for security reasons.">>

TimedOutOutcome == <<"Error: Command timed out after 60 seconds.">>

\* an exception that leaves the tool
Raised == <<"<raised>">>

\* what the subprocess may write to stdout and to stderr
Stdouts == {<<>>, <<"\n">>, <<"o", "k", "\n">>}
Stderrs == {<<>>, <<"n", "o", "t", " ", "f", "o", "u", "n", "d", "\n">>}

\* the exceptions subprocess.run(..., text=True, timeout=60) may raise
RunExceptions ==
    {"TimeoutExpired", "FileNotFoundError", "PermissionError", "OSError",
     "UnicodeDecodeError"}

\* the ways a call of subprocess.run ends: it returns a CompletedProcess or raises
RunEvents ==
    {[exc |-> "none", returncode |-> rc, stdout |-> o, stderr |-> e] :
        rc \in {"0", "1", "127"}, o \in Stdouts, e \in Stderrs}
    \cup {[exc |-> x, returncode |-> "none", stdout |-> <<>>, stderr |-> <<>>] :
             x \in RunExceptions}

\* the try block without its last handler, except Exception
Outcome_NoCatchAll(cmd, ev) ==
    IF ev.exc = "none"
    THEN IF ev.returncode = "0"
         THEN IF Strip(ev.stdout) # <<>> THEN Strip(ev.stdout)
              ELSE <<"Command executed successfully with no output.">>
         ELSE <<"Command failed (Exit code ", ev.returncode, "):\n">> \o Strip(ev.stderr)
    ELSE CASE ev.exc = "TimeoutExpired" -> TimedOutOutcome
           [] ev.exc = "FileNotFoundError" ->
                 <<"Error: Command not found or shell cannot execute - ">> \o cmd
           [] ev.exc = "PermissionError" ->
                 <<"Error: Permission denied for command - ">> \o cmd
           [] OTHER -> Raised

\* what the try block returns when subprocess.run ended with ev
Outcome(cmd, ev) ==
    IF ev.exc = "none"
    THEN IF ev.returncode = "0"
         THEN IF Strip(ev.stdout) # <<>> THEN Strip(ev.stdout)
              ELSE <<"Command executed successfully with no output.">>
         ELSE <<"Command failed (Exit code ", ev.returncode, "):\n">> \o Strip(ev.stderr)
    ELSE CASE ev.exc = "TimeoutExpired" -> TimedOutOutcome
           [] ev.exc = "FileNotFoundError" ->
                 <<"Error: Command not found or shell cannot execute - ">> \o cmd
           [] ev.exc = "PermissionError" ->
                 <<"Error: Permission denied for command - ">> \o cmd
           [] OTHER -> <<"Error executing command: ", ev.exc>>

\* what the try block may return once subprocess.run has been called
RunOutcomes(cmd) == {Outcome(cmd, ev) : ev \in RunEvents}

EngineIdle ==
    /\ node = "idle"
    /\ steps = 0
    /\ ret = None
    /\ entry = "none"
    /\ pending = <<>>
    /\ executed = <<>>
    /\ session = NoSession
    /\ state = NoSession
    /\ counts = NoCounts

ShellInit ==
    /\ EngineIdle
    /\ command \in Commands
    /\ shell = Ready
    /\ spawned = FALSE
    /\ event = NoEvent
    /\ Agent2Off
    /\ LookupIdle
    /\ DriverOff
    /\ ToolsIdle

\* a variant that starts the subprocess before it looks at the deny-list
execute_shell_command_tool_RunsFirst ==
    /\ shell = Ready
    /\ spawned' = TRUE
    /\ IF MatchesDenyList(command)
       THEN /\ shell' = BlockedOutcome
            /\ event' \in RunEvents
       ELSE \E ev \in RunEvents :
               /\ event' = ev
               /\ shell' = Outcome(command, ev)
    /\ UNCHANGED command
    /\ UNCHANGED engineVars
    /\ UNCHANGED agent2Vars
    /\ UNCHANGED <<lookupVars, driverVars, reportVars, healthVars>>

execute_shell_command_tool ==
    /\ shell = Ready
    /\ IF MatchesDenyList(command)
       THEN /\ shell' = BlockedOutcome
            /\ spawned' = FALSE
            /\ event' = NoEvent
       ELSE /\ spawned' = TRUE
            /\ \E ev \in RunEvents :
                  /\ event' = ev
                  /\ shell' = Outcome(command, ev)
    /\ UNCHANGED command
    /\ UNCHANGED engineVars
    /\ UNCHANGED agent2Vars
    /\ UNCHANGED <<lookupVars, driverVars, reportVars, healthVars>>

ShellNext == execute_shell_command_tool

ShellSpec == ShellInit /\ [][ShellNext]_vars

\* C4: once execute_shell_command_tool has returned for a command that matches
\* a deny-list pattern, what it returned is the blocked outcome and no
\* subprocess has been created; the examples of the spec are such commands.
C4_DenyListBlocks ==
    /\ (shell # Ready /\ MatchesDenyList(command))
          => (shell = BlockedOutcome /\ spawned = FALSE)
    /\ (shell # Ready /\ command \in DenyListExamples)
          => (shell = BlockedOutcome /\ spawned = FALSE)
    /\ shell = Ready => spawned = FALSE

\* C4 witness: rm -rf / was handed to the tool and refused
C4_Witness ==
    /\ command = <<"r", "m", " ", "-", "r", "f", " ", "/">>
    /\ shell = BlockedOutcome
    /\ spawned = FALSE

-----------------------------------------------------------------------------
(* Properties of the reflective engine *)

\* the operator answers of UserInputs that approve
ApprovingAnswers == {<<"Y", "E", "S">>, <<"a", "p", "p", "r", "o", "v", "e">>}

\* the last record of a tool history
LastRecord(tool_history) == tool_history[Len(tool_history)]

\* the number of records of a tool history that carry the marker
NumRecords(tool_history, marker) ==
    Cardinality({i \in 1..Len(tool_history) : Contains(<<marker>>, tool_history[i])})

\* one node of the workflow has just run
NodeRan == steps' = steps + 1

\* C1: a tool function is called only by process_user_input, on a session
\* awaiting approval whose user_input is an approving answer, and the tool
\* called is the one named by the pending proposed_tool; a step that does not
\* meet these conditions (a denial among them) calls no tool.
C1_ApprovalGate ==
    [][executed' # executed =>
          /\ node = "process_user_input"
          /\ state.status = "awaiting_approval"
          /\ state.user_input \in ApprovingAnswers
          /\ Len(executed') = Len(executed) + 1
          /\ <<executed'[Len(executed')][1]>> = ToolName(state.proposed_tool)
          /\ executed'[Len(executed')][1] \in RegisteredTools]_vars

\* C1 witness: an approved tool has been called
C1_Witness == executed # <<>> /\ counts.ok > 0

\* C2: proposed_tool is non-empty exactly when status is awaiting_approval, and
\* the run of process_user_input that resolves a proposal clears it.
C2_ProposedIffAwaiting ==
    /\ [](state # NoSession =>
            (state.proposed_tool # <<>> <=> state.status = "awaiting_approval"))
    /\ [][(node = "process_user_input" /\ NodeRan /\ state.status = "awaiting_approval")
            => (state'.proposed_tool = <<>> /\ state'.status # "awaiting_approval")]_vars

\* C2 witness: a proposal is pending after an earlier one was resolved
C2_Witness ==
    /\ node = "process_user_input"
    /\ state.status = "awaiting_approval"
    /\ state.proposed_tool # <<>>
    /\ counts.ok > 0

\* C3, as claimed: every session reaches status finished, whatever the model
\* and the operator answer: no invocation of the workflow ends otherwise.
C3_EverySessionFinishes == node = "raised" => state.status = "finished"

\* C5, as claimed: a session awaiting approval in the invocation that start()
\* began, which carries no operator answer, takes no further transition.
C5_StartStopsAtGate ==
    [][(entry = "start" /\ node = "process_user_input"
          /\ state.status = "awaiting_approval") => state' = state]_vars

\* C6: step() on a finished session changes no field of the session, starts no
\* invocation and calls no tool, whatever user_input it is given.
C6_TerminalAbsorption ==
    [][(node = "idle" /\ session # NoSession /\ session.status = "finished")
          => (session' = session /\ state' = state /\ node' = "idle"
              /\ executed' = executed)]_vars

\* C6 witness: step() has returned on a session that was finished when it was called
C6_Witness ==
    /\ node = "idle"
    /\ entry = "none"
    /\ session # NoSession
    /\ session.status = "finished"
    /\ ret = LatestAIMessage(session.messages)

\* C7: a run of reflect on a tool_history of 10 or more records sets status
\* finished and goes on to finish, continuation phrase or not.
C7_CapForcesFinish ==
    [][(node = "reflect" /\ NodeRan /\ Len(state.tool_history) >= 10)
          => (state'.status = "finished" /\ node' = "finish")]_vars

\* C7 witness: reflect finished a session of exactly 10 records although the
\* reflection asks to continue
C7_Witness ==
    /\ node = "finish"
    /\ Len(state.tool_history) = 10
    /\ state.status = "finished"
    /\ NeedMoreInfo(state.reflection)

\* C8: tool_history holds one record per resolved proposal: as many result
\* records as approved calls that returned, as many denial records as denials,
\* as many error records as approved calls that failed.
C8_CountingLaw ==
    state # NoSession =>
        /\ Len(state.tool_history) = counts.ok + counts.denied + counts.error
        /\ NumRecords(state.tool_history, "\nResult: ") = counts.ok
        /\ NumRecords(state.tool_history, "\nStatus: Execution denied by user")
              = counts.denied
        /\ NumRecords(state.tool_history, "\nError: ") = counts.error

\* C8 witness: a session with an approved call and a denial
C8_Witness == state # NoSession /\ counts.ok > 0 /\ counts.denied > 0

\* C9: create_plan, propose_tool, reflect and finish leave tool_history as it
\* is, and so does process_user_input when no proposal is pending.
C9_ToolHistoryFrame ==
    [][(\/ node \in {"create_plan", "propose_tool", "reflect", "finish"}
        \/ node = "process_user_input" /\ state.status # "awaiting_approval")
          => state'.tool_history = state.tool_history]_vars

\* C9 witness: the workflow ran to END on a session with records
C9_Witness == node = "END" /\ state.tool_history # <<>> /\ state.reflection # <<>>

\* C10: when an approved call does not come back with a result, the run of
\* process_user_input still ends: it appends an error record, clears
\* proposed_tool, sets status reflecting and the workflow goes on to reflect.
C10_ToolFailuresContained ==
    [][(/\ node = "process_user_input" /\ NodeRan
        /\ state.status = "awaiting_approval"
        /\ state.user_input \in ApprovingAnswers
        /\ counts'.ok = counts.ok)
          => /\ node' = "reflect"
             /\ state'.status = "reflecting"
             /\ state'.proposed_tool = <<>>
             /\ Len(state'.tool_history) = Len(state.tool_history) + 1
             /\ Contains(<<"\nError: ">>, LastRecord(state'.tool_history))
             /\ counts'.error = counts.error + 1]_vars

\* C10 witness: an approved call without parentheses was recorded as an error
\* before any tool was called
C10_Witness ==
    /\ node = "reflect"
    /\ counts.error > 0
    /\ executed = <<>>
    /\ Contains(<<"\nError: ", "IndexError">>, LastRecord(state.tool_history))

\* the pairs <<status before, status after>> that one run of a node function
\* can produce: the edges of the status machine
StatusEdges ==
    { <<"planning", "executing">>,
      <<"executing", "awaiting_approval">>,
      <<"executing", "reflecting">>,
      <<"awaiting_approval", "executing">>,
      <<"awaiting_approval", "reflecting">>,
      <<"reflecting", "executing">>,
      <<"reflecting", "finished">> }

C12_ApproveTransition ==
    [][(/\ node = "process_user_input" /\ NodeRan
        /\ state.status = "awaiting_approval"
        /\ state.user_input \in ApprovingAnswers
        /\ counts'.ok = counts.ok + 1)
          => /\ Len(state'.tool_history) = Len(state.tool_history) + 1
             /\ SubSeq(state'.tool_history, 1, Len(state.tool_history)) = state.tool_history
             /\ Contains(<<"\nResult: ">>, LastRecord(state'.tool_history))
             /\ state'.proposed_tool = <<>>
             /\ Len(state'.tool_history) < 5
                   => (state'.status = "executing" /\ node' = "propose_tool")
             /\ Len(state'.tool_history) >= 5
                   => (state'.status = "reflecting" /\ node' = "reflect")]_vars

\* C12 witness: the fifth record of a session is the result of an approved
\* call, and the workflow went on to reflect
C12_Witness ==
    /\ node = "reflect"
    /\ state.status = "reflecting"
    /\ Len(state.tool_history) = 5
    /\ Contains(<<"\nResult: ">>, LastRecord(state.tool_history))
    /\ executed # <<>>

\* C13: when process_user_input resolves a proposal the operator did not
\* approve, it appends exactly one denial record for that proposal, calls no
\* tool, clears proposed_tool and sets status executing, however long
\* tool_history is; the workflow goes on to propose_tool.
C13_DenyTransition ==
    [][(/\ node = "process_user_input" /\ NodeRan
        /\ state.status = "awaiting_approval"
        /\ state.user_input \notin ApprovingAnswers)
          => /\ Len(state'.tool_history) = Len(state.tool_history) + 1
             /\ SubSeq(state'.tool_history, 1, Len(state.tool_history)) = state.tool_history
             /\ LastRecord(state'.tool_history)
                   = <<"Tool: ">> \o state.proposed_tool
                        \o <<"\nStatus: Execution denied by user">>
             /\ executed' = executed
             /\ state'.proposed_tool = <<>>
             /\ state'.status = "executing"
             /\ node' = "propose_tool"
             /\ counts'.denied = counts.denied + 1]_vars

\* C13 witness: a denial was recorded as the seventh record of a session, past
\* both caps, and the session is executing
C13_Witness ==
    /\ node = "propose_tool"
    /\ state.status = "executing"
    /\ Len(state.tool_history) = 7
    /\ Contains(<<"\nStatus: Execution denied by user">>, LastRecord(state.tool_history))
    /\ entry = "step"
    /\ steps > 0

\* the reflections of ReflectOutputs that carry a continuation phrase
ContinuationReflections ==
    { <<"I", " ", "Need", " ", "More", " ", "Information">>,
      <<"we", " ", "SHOULD", " ", "CONTINUE">> }

\* the content of the last message
LastContent(messages) == messages[Len(messages)].content

\* C14: a run of reflect stores the model's answer as reflection, and sets
\* status executing exactly when that answer carries a continuation phrase and
\* tool_history has fewer than 10 records; otherwise it sets status finished.
\* It sets no other status, and the workflow follows the status.
C14_ReflectTransition ==
    [][(node = "reflect" /\ NodeRan)
          => /\ state'.status \in {"executing", "finished"}
             /\ state'.status = "executing"
                   <=> (/\ state'.reflection \in ContinuationReflections
                        /\ Len(state.tool_history) < 10)
             /\ state'.reflection = LastContent(state'.messages)
             /\ state'.reflection \in ReflectOutputs
             /\ node' = IF state'.status = "executing" THEN "propose_tool" ELSE "finish"]_vars

\* C14 witness: a second reflection replaced an earlier, different one and
\* sent the session back to executing
C14_Witness ==
    /\ node = "propose_tool"
    /\ state.status = "executing"
    /\ state.reflection = <<"I", " ", "Need", " ", "More", " ", "Information">>
    /\ \E i \in 1..Len(state.messages) :
          state.messages[i] = AIMessage(<<"we", " ", "SHOULD", " ", "CONTINUE">>)
    /\ state.tool_history # <<>>

\* the tool calls of ProposeOutputs that process_user_input can parse
WellFormedCalls == {LogsCall, ResourcesCall, NetworkCall}

\* C15: propose_tool runs on a session that is executing.  When the model's
\* answer holds a fenced, well-formed tool call, the session becomes
\* awaiting_approval with exactly that call as proposed_tool; when the answer
\* holds no fence, the session becomes reflecting with proposed_tool empty.
\* propose_tool sets no other status.
C15_ProposeTransition ==
    [][(node = "propose_tool" /\ NodeRan)
          => /\ state.status = "executing"
             /\ state'.status \in {"awaiting_approval", "reflecting"}
             /\ \A c \in WellFormedCalls :
                   LastContent(state'.messages) = Fenced(c)
                      => (state'.status = "awaiting_approval" /\ state'.proposed_tool = c)
             /\ ~Contains(FenceTool, LastContent(state'.messages))
                   => (state'.status = "reflecting" /\ state'.proposed_tool = <<>>)]_vars

\* C15 witness: the two-argument call is pending exactly as the model wrote it
C15_Witness ==
    /\ node = "process_user_input"
    /\ state.status = "awaiting_approval"
    /\ state.proposed_tool = NetworkCall
    /\ LastContent(state.messages) = Fenced(NetworkCall)

\* the answers of ProposeOutputs whose fence holds no parseable call
MalformedOutputs == {EmptyFenceOutput, Fenced(BareCall)}

\* C16, as claimed: when the model's answer holds a fence without a parseable
\* tool call, propose_tool sets status reflecting and leaves proposed_tool
\* empty, so that nothing is put before the operator.
C16_MalformedIsNoToolCall ==
    [][(/\ node = "propose_tool" /\ NodeRan
        /\ LastContent(state'.messages) \in MalformedOutputs)
          => (state'.status = "reflecting" /\ state'.proposed_tool = <<>>)]_vars

\* the number of final-diagnosis messages of a transcript
NumFinal(messages) ==
    Cardinality({i \in 1..Len(messages) :
                    messages[i].type = "ai" /\ messages[i].content \in FinalOutputs})

\* a session as finish leaves it: one final diagnosis, appended right after
\* the reflection the session carries
EndsWithDiagnosis(s) ==
    /\ s.status = "finished"
    /\ Len(s.messages) >= 2
    /\ s.messages[Len(s.messages)].type = "ai"
    /\ LastContent(s.messages) \in FinalOutputs
    /\ s.messages[Len(s.messages) - 1] = AIMessage(s.reflection)
    /\ s.reflection \in ReflectOutputs
    /\ NumFinal(s.messages) = 1

\* C18: an invocation reaches END only from finish, run on a session that
\* reflect set to finished; the session at END, and every finished session
\* that start() or step() stored, carries exactly one final-diagnosis message,
\* the last of the transcript, right after the last reflection.
C18_EndsThroughFinish ==
    /\ [][(node' = "END" /\ node # "END")
             => (node = "finish" /\ state.status = "finished"
                 /\ LastContent(state.messages) = state.reflection)]_vars
    /\ [](node = "END" => EndsWithDiagnosis(state))
    /\ []((node = "idle" /\ session # NoSession /\ session.status = "finished")
             => EndsWithDiagnosis(session))

\* C18 witness: step() ran the workflow to END on a session in which an
\* approved tool was called
C18_Witness ==
    /\ node = "END"
    /\ entry = "step"
    /\ counts.ok > 0
    /\ EndsWithDiagnosis(state)

-----------------------------------------------------------------------------
(* Properties of execute_shell_command_tool *)

\* the first atoms of the values the handlers of the try block return
ErrorPrefixes ==
    { "Error: Command timed out after 60 seconds.",
      "Error: Command not found or shell cannot execute - ",
      "Error: Permission denied for command - ",
      "Error executing command: " }

\* C20: a call of execute_shell_command_tool returns one value and raises
\* nothing.  For a command the deny-list matches the value is the blocked
\* message and subprocess.run is not called; when subprocess.run times out it
\* is the timed-out message, which no other case returns; on a non-zero exit
\* it is the failure message with the exit code; on any other exception of
\* subprocess.run it is one of the error messages; the blocked message and
\* the timed-out message differ from each other and from those.
C20_OneOutcomeNeverRaises ==
    /\ BlockedOutcome # TimedOutOutcome
    /\ shell = Ready => event = NoEvent
    /\ shell # Ready =>
          /\ shell # Raised
          /\ MatchesDenyList(command) <=> shell = BlockedOutcome
          /\ MatchesDenyList(command) <=> event = NoEvent
          /\ event.exc = "TimeoutExpired" <=> shell = TimedOutOutcome
          /\ (event.exc = "none" /\ event.returncode \notin {"0", "none"})
                => /\ Head(shell) = "Command failed (Exit code "
                   /\ shell[2] = event.returncode
          /\ event.exc \in RunExceptions => Head(shell) \in ErrorPrefixes
          /\ event.returncode = "0" => Head(shell) \notin ErrorPrefixes

\* C20 witness: subprocess.run raised an exception that has no handler of its
\* own, and the tool returned it as an error value
C20_Witness ==
    /\ ~MatchesDenyList(command)
    /\ event.exc = "UnicodeDecodeError"
    /\ shell = <<"Error executing command: ", "UnicodeDecodeError">>
    /\ spawned

-----------------------------------------------------------------------------
(* The plan-execution workflow (src/agent2.py): state, inputs, parsing *)

\* supersteps one invocation of the workflow may take before the graph
\* runtime gives up (langgraph's recursion_limit, scaled down)
Agent2RecursionLimit == 14

\* AgentState(problem=problem)
AgentState(problem) ==
    [problem |-> problem,
     plan |-> <<>>,
     current_step_index |-> 0,
     execution_results |-> <<>>,
     analysis |-> <<>>,
     suggested_actions |-> <<>>,
     user_input |-> <<>>,
     history |-> <<>>,
     current_state |-> "initial"]

\* what the model may answer to the plan prompt and to the modification
\* prompt: two numbered steps, one dashed step, no step at all
TwoStepPlan == <<"1", ".", " ", "uptime", "\n", "2", ".", " ", "df", "\n">>
OneStepPlan == <<"Plan", ":", "\n", " ", "-", " ", "uptime">>
NoStepPlan == <<"I", " ", "cannot", " ", "plan", "\n">>
PlanTexts == {TwoStepPlan, OneStepPlan, NoStepPlan}

\* what the model answers when it simulates a command, and when it analyses
CommandOutput == <<"<output>">>
Analysis == <<"<analysis>">>

\* what the operator may type at the prompts of the nodes
PlanFeedbacks == {<<"Yes">>, <<"no">>, <<"add", " ", "logs">>}
NewDetails == {<<"prod">>}
PlanApprovals == {<<"ok">>, <<"no">>}
StepDecisions == {<<"Yes">>, <<"skip">>, <<"modify", " ", "it">>, <<"what">>}
ModifiedCommands == {<<"ls">>}
PostDecisions == {<<"Next">>, <<"end">>, <<"remediate", " ", "restart">>, <<"Top">>}

\* str.isdigit() of one character
IsDigit(c) == c \in {"0", "1", "2", "3", "4", "5", "6", "7", "8", "9"}

\* s.startswith(prefix)
StartsWith(prefix, s) == Len(s) >= Len(prefix) /\ SubSeq(s, 1, Len(prefix)) = prefix

\* the body of the loop over result.split("\n"): the steps one line adds
PlanLineSteps(raw) ==
    LET line == Strip(raw)
    IN IF line # <<>> /\ (IsDigit(line[1]) \/ StartsWith(<<"-">>, line))
       THEN IF Contains(<<".">>, line)
            THEN <<Strip(SplitRest(<<".">>, line))>>
            ELSE <<Strip(Tail(line))>>
       ELSE <<>>

RECURSIVE CollectSteps(_)
CollectSteps(lines) ==
    IF lines = <<>> THEN <<>>
    ELSE PlanLineSteps(Head(lines)) \o CollectSteps(Tail(lines))

\* steps, as create_plan and process_plan_feedback build it from the model's text
ParsePlan(text) == CollectSteps(SplitAll(<<"\n">>, text))

-----------------------------------------------------------------------------
(* The node functions of the plan-execution workflow *)

\* create_plan extending the plan it finds
agent2_create_plan_Appends(s, result) ==
    [s EXCEPT !.plan = s.plan \o ParsePlan(result), !.current_state = "plan_created"]

\* create_plan of agent2.py
agent2_create_plan(s, result) ==
    [s EXCEPT !.plan = ParsePlan(result), !.current_state = "plan_created"]

present_plan(s, user_input) ==
    [s EXCEPT !.user_input = user_input, !.current_state = "plan_feedback_received"]

ApprovalWords == {<<"yes">>, <<"y">>, <<"approve">>, <<"ok">>}
RejectionWords == {<<"no">>, <<"n">>, <<"reject">>}

process_plan_feedback(s, new_details, modified_plan_text, approval) ==
    LET user_input == Lower(s.user_input)
    IN IF user_input \in ApprovalWords
       THEN [s EXCEPT !.current_state = "plan_approved"]
       ELSE IF user_input \in RejectionWords
       THEN [s EXCEPT !.problem = s.problem \o <<" Additional context: ">> \o new_details,
                      !.current_state = "plan_rejected"]
       ELSE [s EXCEPT !.plan = ParsePlan(modified_plan_text),
                      !.current_state = IF Lower(approval) \in ApprovalWords
                                        THEN "plan_approved" ELSE "plan_rejected"]

\* prepare_next_step with the check written as `>`
prepare_next_step_OffByOne(s, user_input) ==
    IF s.current_step_index > Len(s.plan)
    THEN [s EXCEPT !.current_state = "all_steps_completed"]
    ELSE [s EXCEPT !.user_input = user_input, !.current_state = "step_decision_received"]

\* prepare_next_step without its check of current_step_index against len(plan)
prepare_next_step_NoBoundsCheck(s, user_input) ==
    [s EXCEPT !.user_input = user_input, !.current_state = "step_decision_received"]

prepare_next_step(s, user_input) ==
    IF s.current_step_index >= Len(s.plan)
    THEN [s EXCEPT !.current_state = "all_steps_completed"]
    ELSE [s EXCEPT !.user_input = user_input, !.current_state = "step_decision_received"]

\* state.plan[state.current_step_index] does not raise IndexError
PlanIndexDefined(s) == s.current_step_index < Len(s.plan)

\* state.plan[state.current_step_index]
CurrentStep(s) == s.plan[s.current_step_index + 1]

process_step_decision(s, modified_command) ==
    LET user_input == Lower(s.user_input)
    IN IF user_input \in {<<"yes">>, <<"y">>, <<"execute">>, <<"run">>}
       THEN [s EXCEPT !.current_state = "execute_step"]
       ELSE IF user_input \in {<<"no">>, <<"n">>, <<"skip">>}
       THEN [s EXCEPT !.current_step_index = s.current_step_index + 1,
                      !.current_state = "prepare_next_step"]
       ELSE IF StartsWith(<<"modify">>, user_input)
       THEN [s EXCEPT !.plan[s.current_step_index + 1] = modified_command,
                      !.current_state = "execute_step"]
       ELSE [s EXCEPT !.current_state = "prepare_next_step"]

\* process_step_decision takes its modify branch
TakesModify(s) ==
    LET user_input == Lower(s.user_input)
    IN /\ user_input \notin {<<"yes">>, <<"y">>, <<"execute">>, <<"run">>}
       /\ user_input \notin {<<"no">>, <<"n">>, <<"skip">>}
       /\ StartsWith(<<"modify">>, user_input)

execute_step(s, output) ==
    [s EXCEPT !.execution_results =
                  Append(s.execution_results, [step |-> CurrentStep(s), output |-> output]),
              !.current_state = "analyze_results"]

analyze_results(s, analysis, user_input) ==
    [s EXCEPT !.analysis = Append(s.analysis, analysis),
              !.user_input = user_input,
              !.current_state = "post_execution_decision"]

process_post_execution_decision(s, next_step, output) ==
    LET user_input == Lower(s.user_input)
    IN IF user_input \in {<<"next">>, <<"continue">>}
       THEN [s EXCEPT !.current_step_index = s.current_step_index + 1,
                      !.current_state = IF s.current_step_index + 1 < Len(s.plan)
                                        THEN "prepare_next_step"
                                        ELSE "all_steps_completed"]
       ELSE IF user_input = <<"end">>
       THEN [s EXCEPT !.current_state = "end_session"]
       ELSE IF StartsWith(<<"remediate">>, user_input)
       THEN [s EXCEPT !.user_input = next_step]
       ELSE [s EXCEPT !.execution_results =
                          Append(s.execution_results,
                                 [step |-> user_input, output |-> output]),
                      !.current_state = "analyze_results"]

summarize_session(s) == [s EXCEPT !.current_state = "end_session"]

Agent2Nodes ==
    {"create_plan", "present_plan", "process_plan_feedback", "prepare_next_step",
     "process_step_decision", "execute_step", "analyze_results",
     "process_post_execution_decision", "summarize_session"}

\* routing that takes the operator's feedback on the plan as an approval
determine_next_SkipsFeedback(current_state) ==
    CASE current_state = "initial" -> "create_plan"
      [] current_state = "plan_created" -> "present_plan"
      [] current_state = "plan_feedback_received" -> "prepare_next_step"
      [] current_state = "plan_approved" -> "prepare_next_step"
      [] current_state = "plan_rejected" -> "create_plan"
      [] current_state = "step_decision_received" -> "process_step_decision"
      [] current_state = "execute_step" -> "execute_step"
      [] current_state = "analyze_results" -> "analyze_results"
      [] current_state = "post_execution_decision" -> "process_post_execution_decision"
      [] current_state = "all_steps_completed" -> "summarize_session"
      [] current_state = "end_session" -> "END"
      [] OTHER -> "END"

determine_next(current_state) ==
    CASE current_state = "initial" -> "create_plan"
      [] current_state = "plan_created" -> "present_plan"
      [] current_state = "plan_feedback_received" -> "process_plan_feedback"
      [] current_state = "plan_approved" -> "prepare_next_step"
      [] current_state = "plan_rejected" -> "create_plan"
      [] current_state = "step_decision_received" -> "process_step_decision"
      [] current_state = "execute_step" -> "execute_step"
      [] current_state = "analyze_results" -> "analyze_results"
      [] current_state = "post_execution_decision" -> "process_post_execution_decision"
      [] current_state = "all_steps_completed" -> "summarize_session"
      [] current_state = "end_session" -> "END"
      [] OTHER -> "END"

-----------------------------------------------------------------------------
(* main() of agent2.py and the steps of its invocation *)

Problem2 == <<"disk full">>

\* the reflective engine is not running
EngineOff ==
    /\ node = "off"
    /\ steps = 0
    /\ ret = None
    /\ entry = "none"
    /\ pending = <<>>
    /\ executed = <<>>
    /\ session = NoSession
    /\ state = NoSession
    /\ counts = NoCounts

\* main(): agent.invoke(AgentState(problem=problem)), at the entry point
Agent2Init ==
    /\ EngineOff
    /\ ShellIdle
    /\ a2 = AgentState(Problem2)
    /\ a2node = "create_plan"
    /\ a2steps = 0
    /\ LookupIdle
    /\ DriverOff
    /\ ToolsIdle

\* one superstep of the invocation is allowed
Agent2CanRun(n) == a2node = n /\ a2steps < Agent2RecursionLimit

\* the node ran: the conditional edge asks determine_next where to go
Routed ==
    /\ a2node' = determine_next(a2'.current_state)
    /\ a2steps' = a2steps + 1
    /\ UNCHANGED engineVars
    /\ UNCHANGED shellVars
    /\ UNCHANGED <<lookupVars, driverVars, reportVars, healthVars>>

\* the node raised: the exception leaves invoke() and main()
Agent2Raised ==
    /\ a2node' = "raised"
    /\ a2steps' = a2steps + 1
    /\ UNCHANGED a2
    /\ UNCHANGED engineVars
    /\ UNCHANGED shellVars
    /\ UNCHANGED <<lookupVars, driverVars, reportVars, healthVars>>

Agent2CreatePlan ==
    /\ Agent2CanRun("create_plan")
    /\ \E result \in PlanTexts : a2' = agent2_create_plan(a2, result)
    /\ Routed

PresentPlan ==
    /\ Agent2CanRun("present_plan")
    /\ \E user_input \in PlanFeedbacks : a2' = present_plan(a2, user_input)
    /\ Routed

ProcessPlanFeedback ==
    /\ Agent2CanRun("process_plan_feedback")
    /\ \E new_details \in NewDetails, modified_plan_text \in PlanTexts,
          approval \in PlanApprovals :
         a2' = process_plan_feedback(a2, new_details, modified_plan_text, approval)
    /\ Routed

PrepareNextStep ==
    /\ Agent2CanRun("prepare_next_step")
    /\ \E user_input \in StepDecisions : a2' = prepare_next_step(a2, user_input)
    /\ Routed

ProcessStepDecision ==
    /\ Agent2CanRun("process_step_decision")
    /\ IF TakesModify(a2) /\ ~PlanIndexDefined(a2)
       THEN Agent2Raised
       ELSE /\ \E modified_command \in ModifiedCommands :
                 a2' = process_step_decision(a2, modified_command)
            /\ Routed

ExecuteStep ==
    /\ Agent2CanRun("execute_step")
    /\ IF ~PlanIndexDefined(a2)
       THEN Agent2Raised
       ELSE /\ a2' = execute_step(a2, CommandOutput)
            /\ Routed

AnalyzeResults ==
    /\ Agent2CanRun("analyze_results")
    /\ IF a2.execution_results = <<>>
       THEN Agent2Raised
       ELSE /\ \E user_input \in PostDecisions :
                 a2' = analyze_results(a2, Analysis, user_input)
            /\ Routed

ProcessPostExecutionDecision ==
    /\ Agent2CanRun("process_post_execution_decision")
    /\ \E next_step \in PostDecisions :
         a2' = process_post_execution_decision(a2, next_step, CommandOutput)
    /\ Routed

SummarizeSession ==
    /\ Agent2CanRun("summarize_session")
    /\ a2' = summarize_session(a2)
    /\ Routed

\* the graph runtime stops an invocation that has not reached END within its
\* recursion limit: invoke raises, and main() with it
Agent2RecursionError ==
    /\ a2node \in Agent2Nodes
    /\ a2steps >= Agent2RecursionLimit
    /\ a2node' = "raised"
    /\ UNCHANGED <<a2, a2steps>>
    /\ UNCHANGED engineVars
    /\ UNCHANGED shellVars
    /\ UNCHANGED <<lookupVars, driverVars, reportVars, healthVars>>

Agent2Next ==
    \/ Agent2CreatePlan
    \/ PresentPlan
    \/ ProcessPlanFeedback
    \/ PrepareNextStep
    \/ ProcessStepDecision
    \/ ExecuteStep
    \/ AnalyzeResults
    \/ ProcessPostExecutionDecision
    \/ SummarizeSession
    \/ Agent2RecursionError

Agent2Spec == Agent2Init /\ [][Agent2Next]_vars

\* the two workflows that generate a plan, each run on its own: a behaviour is
\* a behaviour of the reflective engine or a behaviour of agent2
PlanInit == Init \/ Agent2Init

PlanNext == Next \/ Agent2Next

PlanSpec == PlanInit /\ [][PlanNext]_vars

-----------------------------------------------------------------------------
(* Properties of plan generation *)

\* one node of the plan-execution workflow has just run
Agent2NodeRan == a2steps' = a2steps + 1

\* C17: plan generation always advances.  In the reflective engine create_plan
\* sets status executing and is followed by propose_tool, whatever the model
\* answered.  In agent2 create_plan sets plan_created and is followed by
\* present_plan, whatever the model answered; with a plan of zero steps
\* prepare_next_step goes to all_steps_completed and summarize_session to END,
\* no node that reads a plan step is ever reached, nothing is executed, and
\* no node raises (the invocation is cut short only by the recursion limit).
C17_PlanningAlwaysAdvances ==
    /\ [][(node = "create_plan" /\ NodeRan)
             => (state'.status = "executing" /\ node' = "propose_tool"
                 /\ state'.current_plan \in PlanOutputs)]_vars
    /\ [][(a2node = "create_plan" /\ Agent2NodeRan)
             => (a2'.current_state = "plan_created" /\ a2node' = "present_plan")]_vars
    /\ [][(a2node = "prepare_next_step" /\ Agent2NodeRan /\ a2.plan = <<>>)
             => (a2'.current_state = "all_steps_completed"
                 /\ a2node' = "summarize_session")]_vars
    /\ [][(a2node = "summarize_session" /\ Agent2NodeRan)
             => (a2'.current_state = "end_session" /\ a2node' = "END")]_vars
    /\ []((a2 # NoAgent2 /\ a2.plan = <<>>)
             => /\ a2node \notin {"process_step_decision", "execute_step",
                                  "analyze_results", "process_post_execution_decision"}
                /\ a2.execution_results = <<>>
                /\ a2node = "raised" => a2steps >= Agent2RecursionLimit
                /\ a2node = "END" => a2.current_state = "end_session")

\* C17 witness: the model's plan had no step, the operator approved it, and
\* the workflow reached END in five supersteps without executing anything
C17_Witness ==
    /\ a2node = "END"
    /\ a2steps = 5
    /\ a2.plan = <<>>
    /\ a2.execution_results = <<>>
    /\ a2.current_state = "end_session"

-----------------------------------------------------------------------------
(* Further properties of the reflective engine *)

\* C22, as claimed (Scenario A): in the session start() creates, where the
\* operator denies nothing, every proposal of a well-formed call is resolved
\* as ok: when the workflow has reached END, tool_history holds result
\* records only, one per proposal the model made.
C22_ScenarioA ==
    (node = "END" /\ entry = "start")
       => /\ NumRecords(state.tool_history, "\nResult: ") = Len(state.tool_history)
          /\ counts.denied = 0

\* s is a prefix of t
IsPrefix(s, t) == Len(s) <= Len(t) /\ SubSeq(t, 1, Len(s)) = s

\* C23: messages is append-only.  Every step of the engine leaves the
\* transcript it had as a prefix of the new one and adds at most one entry;
\* a node that consults the model adds exactly the model's answer, the
\* resolution of a proposal adds exactly one human entry; and the transcript
\* start() and step() store extends the one the session had.
C23_MessagesAppendOnly ==
    /\ [][(state # NoSession /\ state' # NoSession)
             => /\ IsPrefix(state.messages, state'.messages)
                /\ Len(state'.messages) <= Len(state.messages) + 1]_vars
    /\ [][(NodeRan /\ node \in {"create_plan", "propose_tool", "reflect", "finish"})
             => /\ Len(state'.messages) = Len(state.messages) + 1
                /\ state'.messages[Len(state'.messages)].type = "ai"]_vars
    /\ [][(NodeRan /\ node = "process_user_input" /\ state.status = "awaiting_approval"
             /\ node' # "raised")
             => /\ Len(state'.messages) = Len(state.messages) + 1
                /\ state'.messages[Len(state'.messages)].type = "human"]_vars
    /\ [][(session # NoSession /\ session' # NoSession)
             => IsPrefix(session.messages, session'.messages)]_vars

\* C23 witness: step() stored a transcript that grew by a plan, a proposal, a
\* tool result and more, on top of the transcript the session had
C23_Witness ==
    /\ node = "idle"
    /\ entry = "step"
    /\ session = state
    /\ Len(session.messages) >= 9
    /\ counts.ok > 0

\* C27: when process_user_input runs on a session that is not awaiting
\* approval, it returns the session as it is, user_input included, whatever
\* user_input holds, and no tool is called.
C27_AnswerIgnoredOutsideGate ==
    [][(node = "process_user_input" /\ NodeRan /\ state.status # "awaiting_approval")
          => (state' = state /\ executed' = executed /\ counts' = counts)]_vars

\* C27 witness: process_user_input ran on a reflecting session that carried an
\* approving answer, and left it alone
C27_Witness ==
    /\ node = "reflect"
    /\ state.status = "reflecting"
    /\ state.user_input \in ApprovingAnswers
    /\ executed = <<>>

-----------------------------------------------------------------------------
(* Further properties of the plan-execution workflow *)

\* C24, as claimed: once a session has its problem statement, no step changes
\* it: problem of agent2, and problem_understanding of the reflective engine
\* once initialize_state has set it.
C24_ProblemImmutable ==
    /\ [][(a2 # NoAgent2 /\ a2' # NoAgent2) => a2'.problem = a2.problem]_vars
    /\ [][(state # NoSession /\ state' # NoSession
             /\ state.problem_understanding # <<>>)
             => state'.problem_understanding = state.problem_understanding]_vars

\* C25, as claimed: current_step_index stays within 0..len(plan), and a step
\* that brings it to len(plan), like a run of prepare_next_step that finds it
\* there, sets all_steps_completed and goes on to summarize_session.
C25_IndexWithinPlan ==
    /\ [](a2 # NoAgent2 =>
            (0 <= a2.current_step_index /\ a2.current_step_index <= Len(a2.plan)))
    /\ [][(/\ Agent2NodeRan
           /\ a2node' # "raised"
           /\ \/ a2node = "prepare_next_step" /\ a2.current_step_index = Len(a2.plan)
              \/ /\ a2'.current_step_index # a2.current_step_index
                 /\ a2'.current_step_index = Len(a2'.plan))
             => /\ a2'.current_state = "all_steps_completed"
                /\ a2node' = "summarize_session"
                /\ a2'.execution_results = a2.execution_results]_vars

\* the plans the texts of PlanTexts stand for
ParsedPlans == { <<<<"uptime">>, <<"df">>>>, <<<<"uptime">>>>, <<>> }

\* C26: when process_plan_feedback ends in plan_rejected (the operator
\* answered no, n or reject, or did not approve the modified plan), the next
\* node is create_plan, which replaces the plan by the one it parses from the
\* model's new answer; nothing has been executed by then, and
\* current_step_index is 0 when prepare_next_step first runs on the approved plan.
C26_Replanning ==
    /\ [][(a2node = "process_plan_feedback" /\ Agent2NodeRan)
             => /\ (Lower(a2.user_input) \in {<<"no">>, <<"n">>, <<"reject">>})
                      => a2'.current_state = "plan_rejected"
                /\ a2'.current_state \in {"plan_approved", "plan_rejected"}
                /\ a2'.current_state = "plan_rejected" => a2node' = "create_plan"
                /\ a2'.current_state = "plan_approved" => a2node' = "prepare_next_step"
                /\ a2'.execution_results = <<>>
                /\ a2'.current_step_index = 0]_vars
    /\ [][(a2node = "create_plan" /\ Agent2NodeRan)
             => /\ a2'.plan \in ParsedPlans
                /\ a2'.execution_results = <<>>
                /\ a2'.current_step_index = 0]_vars
    /\ []((a2 # NoAgent2 /\ a2.current_state = "plan_approved")
             => (a2.current_step_index = 0 /\ a2.execution_results = <<>>
                 /\ a2.plan \in ParsedPlans))

\* C26 witness: a plan was rejected (the problem carries the operator's
\* additional context), and the one-step plan generated in its place is
\* approved and about to be executed from its first step
C26_Witness ==
    /\ a2node = "prepare_next_step"
    /\ a2.current_state = "plan_approved"
    /\ a2.problem # Problem2
    /\ a2.plan = <<<<"uptime">>>>
    /\ a2.current_step_index = 0
    /\ a2steps = 6

-----------------------------------------------------------------------------
(* Part 4: the troubleshooting lookup,                                      *)
(* src/tools/get_troubleshooting_steps_tool.py.  A service name is a       *)
(* sequence of atoms; a text of the database is one atom.                  *)

MaxNameLen == 3

NameAtoms == {"kyc", "_services", "payment", "foo", "KYC"}

\* the strings the tool can be called with
ServiceNames == UNION {[1..n -> NameAtoms] : n \in 0..MaxNameLen}

KycServices == <<"kyc", "_services">>
Payment == <<"payment">>

KycRecord ==
    [steps |-> <<
        [name |-> <<"Check if service-kyc tag exists in tags.json">>,
         commands |-> << <<"cat /etc/chef/chef/tags/qa.json | grep 'service_kyc'">> >>],
        [name |-> <<"Check if required KYC service folders exist">>,
         commands |-> <<
            <<"ls -la /home/git/regentmarkets/environment-manifests-qa/k8s/service-business-rules">>,
            <<"ls -la /home/git/regentmarkets/environment-manifests-qa/k8s/service-kyc-rules">> >>],
        [name |-> <<"Fix missing service folders (if needed)">>,
         commands |-> <<
            <<"# If service-business-rules is missing, run:">>,
            <<"mkdir -p /home/git/regentmarkets/environment-manifests-qa/k8s/service-business-rules">>,
            <<"rsync -avz qa61:/home/git/regentmarkets/environment-manifests-qa/k8s/service-business-rules/ /home/git/regentmarkets/environment-manifests-qa/k8s/service-business-rules/">>,
            <<"# If service-kyc-rules is missing, run:">>,
            <<"mkdir -p /home/git/regentmarkets/environment-manifests-qa/k8s/service-kyc-rules">>,
            <<"rsync -avz qa61:/home/git/regentmarkets/environment-manifests-qa/k8s/service-kyc-rules/ /home/git/regentmarkets/environment-manifests-qa/k8s/service-kyc-rules/">>,
            <<"# Copy related entries in values.yml">>,
            <<"scp qa61:/home/git/regentmarkets/environment-manifests-qa/values/internal-services.yaml /tmp/qa61-internal-services.yaml">>,
            <<"echo 'Compare and copy relevant KYC entries from /tmp/qa61-internal-services.yaml to your internal-services.yaml'">>,
            <<"# Commit changes">>,
            <<"cd /home/git/regentmarkets/environment-manifests-qa && git status">>,
            <<"# Then add, commit and push changes if needed">> >>],
        [name |-> <<"Check hosts file for k8s-lb-local.deriv.local entry">>,
         commands |-> << <<"grep '10.14.20.218 k8s-lb-local.deriv.local' /etc/hosts || echo 'No k8s-lb-local.deriv.local entry found in /etc/hosts'">> >>],
        [name |-> <<"Restart BSDB">>,
         commands |-> << <<"cd /home/git/regentmarkets/bom-postgres-bsdb/kyc && make pgtap.port">> >>],
        [name |-> <<"Check if KYC pods are running">>,
         commands |-> << <<"kubectl get pods -n <qabox e.g qa40>">> >>] >>,
     common_fixes |-> <<
        <<"Add service_kyc tag to /etc/chef/chef/tags/qa.json and run chef-client">>,
        <<"Fix missing service folders (if needed)">>,
        <<"Add this entry in hosts: echo '10.14.20.218 k8s-lb-local.deriv.local' | sudo tee -a /etc/hosts">>,
        <<"Restard bsdb: cd /home/git/regentmarkets/bom-postgres-bsdb/kyc && make pgtap.port">> >>,
     other_tips |-> <<
        <<"KYC service requires  service-kyc-rules and business-rules service to be running">>,
        <<"Add this entry in hosts: echo '10.14.20.218 k8s-lb-local.deriv.local' in /etc/hosts">>,
        <<"Restart all services">> >>]

PaymentRecord ==
    [steps |-> <<
        [name |-> <<"Check if service_payment tag exists">>,
         commands |-> << <<"cat /etc/chef/chef/tags/qa.json | grep service_payment">> >>],
        [name |-> <<"Verify payment service pods are running">>,
         commands |-> << <<"kubectl get pods | grep payment-service">> >>],
        [name |-> <<"Check payment database connection">>,
         commands |-> <<
            <<"kubectl exec -it $(kubectl get pod -l app=payment-service -o jsonpath='{.items[0].metadata.name}') -- env | grep DATABASE">>,
            <<"kubectl exec -it $(kubectl get pod -l app=payment-service -o jsonpath='{.items[0].metadata.name}') -- curl -s database-host:port">> >>],
        [name |-> <<"Check payment processor connectivity">>,
         commands |-> << <<"kubectl exec -it $(kubectl get pod -l app=payment-service -o jsonpath='{.items[0].metadata.name}') -- curl -s payment-gateway-url/status">> >>] >>,
     common_fixes |-> <<
        <<"Add service_payment tag to /etc/chef/chef/tags/qa.json and run chef-client">>,
        <<"Restart payment service: kubectl rollout restart deployment payment-service">>,
        <<"Verify payment database credentials in secrets">> >>,
     other_tips |-> <<
        <<"Payment service requires functioning network connection to payment processor">>,
        <<"Check firewall rules for outbound connections to payment gateway">>,
        <<"Verify SSL certificates for payment gateway are valid">> >>]

\* the master troubleshooting map: a dict from service name to record
troubleshooting_map == (KycServices :> KycRecord) @@ (Payment :> PaymentRecord)

\* list(troubleshooting_map.keys()): the keys in insertion order
available_services == <<KycServices, Payment>>

\* sep.join(strings)
RECURSIVE JoinWith(_, _)
JoinWith(sep, strings) ==
    IF strings = <<>> THEN <<>>
    ELSE IF Len(strings) = 1 THEN strings[1]
    ELSE strings[1] \o sep \o JoinWith(sep, Tail(strings))

\* what a call gives back: the dict it returns, or the exception it raises
Returned(value) == [kind |-> "returned", value |-> value]
KeyError(key) == [kind |-> "raised", exception |-> "KeyError", key |-> key]

\* the record returned for a name that is not a key of the map
NotFoundRecord(name) ==
    [steps |-> <<
        [name |-> <<"Service ", "'">> \o name
                    \o <<"'", " not found in troubleshooting database">>,
         commands |-> << <<"echo 'Available services: ">>
                           \o JoinWith(<<", ">>, available_services) \o <<"'">> >>] >>,
     common_fixes |-> << <<"Verify that the service name is correct">> >>,
     other_tips |-> << <<"Available services: ">> \o JoinWith(<<", ">>, available_services) >>]

\* a lookup that indexes the map without the membership test
get_service_troubleshooting_steps_Indexes(name) ==
    IF name \in DOMAIN troubleshooting_map
    THEN Returned(troubleshooting_map[name])
    ELSE KeyError(name)

get_service_troubleshooting_steps(name) ==
    IF name \in DOMAIN troubleshooting_map
    THEN Returned(troubleshooting_map[name])
    ELSE Returned(NotFoundRecord(name))

LookupInit ==
    /\ EngineOff
    /\ ShellIdle
    /\ Agent2Off
    /\ DriverOff
    /\ ToolsIdle
    /\ service_name \in ServiceNames
    /\ steps_info = NotCalled

\* the tool is called with the service name
GetServiceTroubleshootingSteps ==
    /\ steps_info = NotCalled
    /\ steps_info' = get_service_troubleshooting_steps(service_name)
    /\ UNCHANGED service_name
    /\ UNCHANGED engineVars
    /\ UNCHANGED shellVars
    /\ UNCHANGED agent2Vars
    /\ UNCHANGED <<driverVars, reportVars, healthVars>>

LookupNext == GetServiceTroubleshootingSteps

LookupSpec == LookupInit /\ [][LookupNext]_vars

\* C21: get_service_troubleshooting_steps is total.  Once called it has
\* returned and not raised; for a key of the map the value is that key's
\* record; for every other name the value is a record with exactly the keys
\* steps, common_fixes and other_tips, whose one step names the requested
\* service, and whose step command and tip both list every available service.
C21_LookupIsTotal ==
    steps_info # NotCalled =>
        /\ steps_info.kind = "returned"
        /\ IF service_name \in DOMAIN troubleshooting_map
           THEN steps_info.value = troubleshooting_map[service_name]
           ELSE /\ DOMAIN steps_info.value = {"steps", "common_fixes", "other_tips"}
                /\ Len(steps_info.value.steps) = 1
                /\ Contains(<<"Service ", "'">> \o service_name \o <<"'">>,
                            steps_info.value.steps[1].name)
                /\ \A k \in DOMAIN troubleshooting_map :
                      /\ Contains(k, steps_info.value.steps[1].commands[1])
                      /\ Contains(k, steps_info.value.other_tips[1])

\* Scenario D: "foo_services" has been looked up and the fallback came back
C21_Witness ==
    /\ service_name = <<"foo", "_services">>
    /\ steps_info.kind = "returned"
    /\ steps_info.value.steps[1].name =
          <<"Service ", "'", "foo", "_services", "'",
            " not found in troubleshooting database">>
    /\ steps_info.value.other_tips =
          << <<"Available services: ", "kyc", "_services", ", ", "payment">> >>

-----------------------------------------------------------------------------
(* Part 5: the session drivers: run_agent of src/agent.py and of           *)
(* src/llm_agent.py, run_interactive_agent of src/reflective_agent.py.     *)
(* drv.shown is the terminal: everything the driver has displayed so far.  *)
(* drv.failed and drv.parse_failed say what happened in the driver's last  *)
(* step: a model invocation raised, output_parser.parse raised.            *)

MaxQueries == 3

\* graph.invoke / start / step raises
Raises == [kind |-> "raises"]

\* response["messages"][-1].content: a report with every service running, a
\* report with a failing service, or text that is not a report
HealthyReport == [kind |-> "report", failing |-> FALSE]
FailingReport == [kind |-> "report", failing |-> TRUE]
PlainText == [kind |-> "text"]
Responses == {HealthyReport, FailingReport, PlainText}

InvokeOutcomes == {Raises} \cup Responses

\* output_parser.parse(agent_response) returns (TRUE) or raises (FALSE)
Parses(response) == response.kind = "report"

\* what the operator sees: a line of typer.echo / print, the rendered report
\* of display_structured_output, the raw text of display_typing_effect
Echo(text) == [via |-> "echo", text |-> text, response |-> [kind |-> "none"]]
Structured(response) == [via |-> "display_structured_output", text |-> "", response |-> response]
Typing(response) == [via |-> "display_typing_effect", text |-> "", response |-> response]

\* auto_troubleshoot_services_if_needed(structured_output, graph, config):
\* what it displays, and whether its graph.invoke raised
auto_troubleshoot_services_if_needed(report, second) ==
    IF ~report.failing
    THEN [shown |-> <<Echo("All services are operational. No troubleshooting needed.")>>,
          raised |-> FALSE]
    ELSE IF second = Raises
    THEN [shown |-> <<Echo("Found failing services"),
                      Echo("Let me find the troubleshooting steps for each...")>>,
          raised |-> TRUE]
    ELSE [shown |-> <<Echo("Found failing services"),
                      Echo("Let me find the troubleshooting steps for each..."),
                      Echo("[Troubleshooting Recommendations]"),
                      Typing(second)>>,
          raised |-> FALSE]

Banner(program) ==
    IF program = "agent"
    THEN <<Echo("BoxFixer starting up..."),
           Echo("Type 'exit' or 'quit' to end the session."),
           Echo("Running initial diagnosis...")>>
    ELSE <<Echo("AI Agent starting up..."),
           Echo("Initializing systems..."),
           Echo("Running initial check")>>

\* the inner try/except of the initial diagnosis
InitialDisplay(program, response, second) ==
    IF ~Parses(response)
    THEN <<Echo(IF program = "agent" THEN "Agent response:"
                ELSE "Agent response (raw format - parsing failed):"),
           Echo("Parsing error"),
           Typing(response)>>
    ELSE IF program = "agent"
    THEN LET auto == auto_troubleshoot_services_if_needed(response, second)
         IN  <<Structured(response)>> \o auto.shown
               \o (IF auto.raised
                   THEN <<Echo("Agent response:"), Echo("Parsing error"), Typing(response)>>
                   ELSE <<>>)
    ELSE <<Structured(response)>>

\* the initial diagnosis, were the inner try/except missing: a parse failure
\* reaches the outer handler
run_agent_initial_ParseFailureAborts(program, interactive, first, second) ==
    IF first = Raises \/ ~Parses(first)
    THEN [at |-> "ended",
          shown |-> Banner(program) \o <<Echo("Error starting agent")>>,
          failed |-> first = Raises, parse_failed |-> first # Raises]
    ELSE [at |-> IF program = "llm_agent" /\ ~interactive THEN "ended" ELSE "prompt",
          shown |-> Banner(program) \o InitialDisplay(program, first, second),
          failed |-> FALSE, parse_failed |-> FALSE]

\* run_agent up to the first prompt: first is the outcome of the initial
\* graph.invoke, second that of the invocation made by the automatic
\* troubleshooting (agent.py, report with a failing service)
run_agent_initial(program, interactive, first, second) ==
    IF first = Raises
    THEN [at |-> "ended",
          shown |-> Banner(program) \o <<Echo("Error starting agent")>>,
          failed |-> TRUE, parse_failed |-> FALSE]
    ELSE LET seen == Banner(program) \o InitialDisplay(program, first, second)
             troubleshoot_failed ==
                 /\ program = "agent" /\ Parses(first)
                 /\ auto_troubleshoot_services_if_needed(first, second).raised
         IN  IF program = "llm_agent" /\ ~interactive
             THEN [at |-> "ended",
                   shown |-> seen \o <<Echo("Agent task completed.")>>,
                   failed |-> FALSE, parse_failed |-> ~Parses(first)]
             ELSE [at |-> "prompt",
                   shown |-> seen \o (IF program = "llm_agent"
                                      THEN <<Echo("Entering interactive mode.")>>
                                      ELSE <<>>),
                   failed |-> troubleshoot_failed, parse_failed |-> ~Parses(first)]

ExitWords == {<<"exit">>, <<"quit">>, <<"q">>}

\* what the operator types at the prompt
Queries == {<<"exit">>, <<"Quit">>, <<"q">>, <<"is", " ", "kyc", " ", "up?">>}

\* one pass of the while loop: the prompt, and the handling of the answer
run_agent_query(program, user_input, outcome) ==
    IF Lower(user_input) \in ExitWords
    THEN [at |-> "ended", shown |-> <<Echo("Ending agent session. Goodbye!")>>,
          failed |-> FALSE, parse_failed |-> FALSE]
    ELSE IF outcome = Raises
    THEN [at |-> "prompt", shown |-> <<Echo("Error processing query")>>,
          failed |-> TRUE, parse_failed |-> FALSE]
    ELSE [at |-> "prompt",
          shown |-> (IF Parses(outcome)
                     THEN <<Structured(outcome)>>
                     ELSE <<Echo(IF program = "agent" THEN "Agent response:"
                                 ELSE "Agent response (raw format):"),
                            Typing(outcome)>>)
                    \o (IF program = "llm_agent"
                        THEN <<Echo("Agent response:"), Typing(outcome)>>
                        ELSE <<>>),
          failed |-> FALSE, parse_failed |-> ~Parses(outcome)]

\* the statuses DevOpsTroubleshooter.state["status"] can hold after a call
DriverStatuses == {"awaiting_approval", "executing", "reflecting", "finished"}

\* start() or step() returns, leaving state["status"] = status
Returns(status) == [kind |-> "returns", status |-> status]

CallOutcomes == {Raises} \cup {Returns(status) : status \in DriverStatuses}

\* a call of start() or step() by run_interactive_agent: it raises, and no
\* handler is there, or it returns and the response is printed
run_interactive_call(outcome) ==
    IF outcome = Raises
    THEN [at |-> "raised", shown |-> <<>>, status |-> "none",
          failed |-> TRUE, parse_failed |-> FALSE]
    ELSE [at |-> IF outcome.status = "finished" THEN "ended" ELSE "loop",
          shown |-> <<Echo("Agent: response")>>, status |-> outcome.status,
          failed |-> FALSE, parse_failed |-> FALSE]

Driver(program, interactive) ==
    [program |-> program, interactive |-> interactive, at |-> "initial",
     status |-> "none", queries |-> 0, shown |-> <<>>,
     failed |-> FALSE, parse_failed |-> FALSE]

DriverInit ==
    /\ EngineOff
    /\ ShellIdle
    /\ Agent2Off
    /\ LookupIdle
    /\ ToolsIdle
    /\ \/ \E program \in {"agent", "llm_agent"}, interactive \in BOOLEAN :
             drv = Driver(program, interactive)
       \/ drv = Driver("reflective_agent", TRUE)

DriverFrame ==
    /\ UNCHANGED engineVars
    /\ UNCHANGED shellVars
    /\ UNCHANGED agent2Vars
    /\ UNCHANGED <<lookupVars, reportVars, healthVars>>

\* run_agent from its first line to the first prompt (or to its end)
RunAgentInitial ==
    /\ drv.program \in {"agent", "llm_agent"}
    /\ drv.at = "initial"
    /\ \E first \in InvokeOutcomes, second \in InvokeOutcomes :
          LET r == run_agent_initial(drv.program, drv.interactive, first, second)
          IN  drv' = [drv EXCEPT !.at = r.at, !.shown = r.shown,
                                 !.failed = r.failed, !.parse_failed = r.parse_failed]
    /\ DriverFrame

\* one pass of the interactive loop of run_agent
RunAgentLoop ==
    /\ drv.program \in {"agent", "llm_agent"}
    /\ drv.at = "prompt"
    /\ \E user_input \in Queries, outcome \in InvokeOutcomes :
          /\ Lower(user_input) \notin ExitWords => drv.queries < MaxQueries
          /\ LET r == run_agent_query(drv.program, user_input, outcome)
             IN  drv' = [drv EXCEPT !.at = r.at, !.shown = drv.shown \o r.shown,
                                    !.queries = drv.queries + 1,
                                    !.failed = r.failed, !.parse_failed = r.parse_failed]
    /\ DriverFrame

\* run_interactive_agent up to its loop: the banner, the problem, start()
RunInteractiveStart ==
    /\ drv.program = "reflective_agent"
    /\ drv.at = "initial"
    /\ \E outcome \in CallOutcomes :
          LET r == run_interactive_call(outcome)
          IN  drv' = [drv EXCEPT !.at = r.at, !.status = r.status,
                                 !.shown = <<Echo("DevOpsTroubleshooter CLI"),
                                             Echo("------------------------")>> \o r.shown,
                                 !.failed = r.failed]
    /\ DriverFrame

\* one pass of the loop of run_interactive_agent: step(user_input)
RunInteractiveStep ==
    /\ drv.program = "reflective_agent"
    /\ drv.at = "loop"
    /\ drv.queries < MaxQueries
    /\ \E outcome \in CallOutcomes :
          LET r == run_interactive_call(outcome)
          IN  drv' = [drv EXCEPT !.at = r.at, !.status = r.status,
                                 !.shown = drv.shown \o r.shown,
                                 !.queries = drv.queries + 1,
                                 !.failed = r.failed]
    /\ DriverFrame

DriverNext ==
    \/ RunAgentInitial
    \/ RunAgentLoop
    \/ RunInteractiveStart
    \/ RunInteractiveStep

DriverSpec == DriverInit /\ [][DriverNext]_vars

-----------------------------------------------------------------------------
(* Properties of the session drivers *)

\* what the driver's step has just added to the terminal
Displayed == SubSeq(drv'.shown, Len(drv.shown) + 1, Len(drv'.shown))

DriverStepped == drv' # drv

\* the interactive loop is not switched off (--no-interactive of llm_agent.py)
LoopRequested == ~(drv.program = "llm_agent" /\ ~drv.interactive)

\* C28: parse-error fallback.  Whenever a step of run_agent (agent.py,
\* llm_agent.py) could not parse the model's response, that step displays the
\* raw response text and the driver is at the operator prompt afterwards:
\* the loop is entered after the initial diagnosis, and goes on after a
\* query.  With the loop switched off the run completes as it does for a
\* parsed response ("Agent task completed."); in no case does a parse failure
\* take the error exit.
C28_ParseErrorFallback ==
    [][(DriverStepped /\ drv'.parse_failed)
          => /\ \E i \in DOMAIN Displayed :
                   Displayed[i] = Typing(PlainText)
             /\ \A i \in DOMAIN Displayed : Displayed[i] # Echo("Error starting agent")
             /\ IF LoopRequested
                THEN drv'.at = "prompt"
                ELSE Displayed[Len(Displayed)] = Echo("Agent task completed.")]_vars

\* the initial response did not parse, the loop was entered, and a later
\* response did not parse either: the raw text is on the terminal and the
\* driver is at the prompt again
C28_Witness ==
    /\ drv.program = "agent"
    /\ drv.at = "prompt"
    /\ drv.queries = 2
    /\ drv.parse_failed
    /\ Len(drv.shown) = 10
    /\ drv.shown[6] = Typing(PlainText)
    /\ drv.shown[10] = Typing(PlainText)

IsErrorMessage(item) ==
    /\ item.via = "echo"
    /\ item.text \in {"Error starting agent", "Error processing query", "Parsing error"}

\* C29: every failure of a model invocation in the session driver (agent.py,
\* run_interactive_agent), in the initial diagnosis or in a later query,
\* displays an error message and leaves the driver accepting operator input.
C29_FailureLeavesContinuation ==
    [][(DriverStepped /\ drv'.failed /\ drv.program \in {"agent", "reflective_agent"})
          => /\ \E i \in DOMAIN Displayed : IsErrorMessage(Displayed[i])
             /\ drv'.at \in {"prompt", "loop"}]_vars

-----------------------------------------------------------------------------
(* The cap on executed tool calls *)

\* the denials that follow the executed calls in the sessions of CapInit
MaxTrailingDenials == 2

\* the session after k proposals were approved and executed: a reflection
\* that asks to continue follows every result that led to reflecting
RECURSIVE Approved(_)
Approved(k) ==
    IF k = 0 THEN Planned
    ELSE LET gate == [propose_tool(Approved(k - 1), Fenced(LogsCall))
                         EXCEPT !.user_input = <<"Y", "E", "S">>]
             done == process_user_input(gate, FALSE)
         IN  IF done.status = "reflecting"
             THEN reflect(done, <<"we", " ", "SHOULD", " ", "CONTINUE">>)
             ELSE done

\* and after b further proposals were denied
RECURSIVE ApprovedThenDenied(_, _)
ApprovedThenDenied(k, b) ==
    IF b = 0 THEN Approved(k)
    ELSE process_user_input(propose_tool(ApprovedThenDenied(k, b - 1), Fenced(LogsCall)),
                            FALSE)

\* the calls made by k approved proposals
RECURSIVE CallsMade(_)
CallsMade(k) ==
    IF k = 0 THEN <<>> ELSE CallsMade(k - 1) \o Dispatch(LogsCall, FALSE).called

\* before start(), or the workflow as designed, at the approval gate: k calls
\* were executed, b denials followed, the next proposal is shown to the
\* operator.  The
\* workflow reads only len(tool_history), so the order of the records makes
\* no difference to it.
CapInit ==
    /\ node = "idle"
    /\ steps = 0
    /\ ret = None
    /\ entry = "none"
    /\ pending = <<>>
    /\ \/ /\ session = NoSession
          /\ state = NoSession
          /\ executed = <<>>
          /\ counts = NoCounts
       \/ \E k \in 0..(MAX_TOTAL_TOOL_CALLS - 1), b \in 0..MaxTrailingDenials :
            /\ ApprovedThenDenied(k, b).status = "executing"
            /\ session = propose_tool(ApprovedThenDenied(k, b), Fenced(LogsCall))
            /\ state = session
            /\ executed = CallsMade(k)
            /\ counts = [ok |-> k, denied |-> b, error |-> 0]
    /\ ShellIdle
    /\ Agent2Off
    /\ LookupIdle
    /\ DriverOff
    /\ ToolsIdle

CapSpec == CapInit /\ [][Next]_vars

\* the records of a tool history written by an executed call
IsExecutedRecord(record) ==
    Contains(<<"\nResult: ">>, record) \/ Contains(<<"\nError: ">>, record)

NumExecuted(tool_history) ==
    Cardinality({i \in 1..Len(tool_history) : IsExecutedRecord(tool_history[i])})

\* the position of the last executed call in a tool history, 0 when none
LastExecuted(tool_history) ==
    LET at == {i \in 1..Len(tool_history) : IsExecutedRecord(tool_history[i])}
    IN  IF at = {} THEN 0 ELSE CHOOSE i \in at : \A j \in at : j <= i

\* C31: the cap on executed calls.  No session holds more than
\* MAX_TOTAL_TOOL_CALLS = 10 executed calls (results and errors), in its
\* tool_history or in the calls actually made; and a session that can still
\* reach the approval gate (executing or awaiting_approval) holds at most 9,
\* all among its first 9 records, so that one more approval cannot pass 10:
\* a call executed as the 10th record or later sends the session through
\* reflect to finished, whatever the reflection says and however many
\* denials the history holds.
C31_ExecutedCallsCapped ==
    state # NoSession =>
        /\ NumExecuted(state.tool_history) <= MAX_TOTAL_TOOL_CALLS
        /\ Len(executed) <= MAX_TOTAL_TOOL_CALLS
        /\ state.status \in {"executing", "awaiting_approval"}
              => LastExecuted(state.tool_history) < MAX_TOTAL_TOOL_CALLS

\* the 10th call was executed, after denials, and the reflection that asked
\* to continue ended the session
C31_Witness ==
    /\ node = "finish"
    /\ Len(executed) = MAX_TOTAL_TOOL_CALLS
    /\ NumExecuted(state.tool_history) = MAX_TOTAL_TOOL_CALLS
    /\ Len(state.tool_history) > MAX_TOTAL_TOOL_CALLS
    /\ NeedMoreInfo(state.reflection)
    /\ state.status = "finished"

-----------------------------------------------------------------------------
(* Properties of tool errors *)

\* the proposal at the gate names no registered tool
NamesNoTool(s) == \A t \in RegisteredTools : ToolName(s.proposed_tool) # <<t>>

-----------------------------------------------------------------------------
(* Properties of the plan-execution workflow *)

PlanningNodes == {"create_plan", "present_plan", "process_plan_feedback"}

\* the operator's answer to the step prompt asks for the step to be run
AsksToRun(user_input) ==
    \/ Lower(user_input) \in {<<"yes">>, <<"y">>, <<"execute">>, <<"run">>}
    \/ /\ Lower(user_input) \notin {<<"no">>, <<"n">>, <<"skip">>}
       /\ StartsWith(<<"modify">>, Lower(user_input))

\* C33: no plan step is executed before the plan is approved.  The execution
\* nodes are entered only through prepare_next_step, and prepare_next_step
\* only from process_plan_feedback ending in plan_approved, on an approving
\* answer or on a modification the operator did not answer with a
\* rejection word; once past the approval the workflow never goes back to a
\* planning node, and the plan changes only by the operator's modify.
\* execute_step is entered only from process_step_decision, on the answer
\* yes/y/execute/run or modify to the prompt for the step it executes.
C33_NoExecutionBeforeApproval ==
    [][Agent2NodeRan =>
         /\ a2node' = "prepare_next_step"
               => /\ a2node = "process_plan_feedback"
                  /\ a2'.current_state = "plan_approved"
                  /\ Lower(a2.user_input) \notin RejectionWords
         /\ a2node' = "process_step_decision" => a2node = "prepare_next_step"
         /\ a2node' = "execute_step"
               => /\ a2node = "process_step_decision"
                  /\ AsksToRun(a2.user_input)
                  /\ a2'.current_step_index = a2.current_step_index
         /\ a2node \notin PlanningNodes
               => /\ a2node' \notin PlanningNodes
                  /\ a2'.plan # a2.plan
                        => a2node = "process_step_decision" /\ TakesModify(a2)]_vars

\* the plan was approved as it stood, the first step was modified at its
\* prompt and executed
C33_Witness ==
    /\ a2node = "analyze_results"
    /\ a2.plan = <<<<"ls">>, <<"df">>>>
    /\ a2.current_step_index = 0
    /\ a2.execution_results = <<[step |-> <<"ls">>, output |-> CommandOutput]>>

\* C34: when process_post_execution_decision runs on the answer next or
\* continue, current_step_index increases by one; with a step left in the
\* plan the workflow goes on to prepare_next_step, which prompts for that
\* step, and only with no step left to summarize_session.
C34_NextGoesToNextStep ==
    [][(/\ a2node = "process_post_execution_decision" /\ Agent2NodeRan
        /\ Lower(a2.user_input) \in {<<"next">>, <<"continue">>})
          => /\ a2'.current_step_index = a2.current_step_index + 1
             /\ a2node' = IF a2'.current_step_index < Len(a2'.plan)
                          THEN "prepare_next_step"
                          ELSE "summarize_session"]_vars

\* C35: when process_step_decision runs on the answer no, n or skip, nothing
\* is executed, current_step_index increases by one and the workflow goes on
\* to prepare_next_step (which prompts for the following step, or leads to
\* the summary when none is left); on an answer it does not understand, the
\* workflow goes back to prepare_next_step with current_step_index unchanged.
C35_SkipAndAskAgain ==
    [][(/\ a2node = "process_step_decision" /\ Agent2NodeRan
        /\ ~AsksToRun(a2.user_input))
          => /\ a2'.execution_results = a2.execution_results
             /\ a2'.current_step_index =
                   IF Lower(a2.user_input) \in {<<"no">>, <<"n">>, <<"skip">>}
                   THEN a2.current_step_index + 1
                   ELSE a2.current_step_index
             /\ a2node' = "prepare_next_step"]_vars

\* the values of current_state that determine_next names
RoutedStates ==
    {"initial", "plan_created", "plan_feedback_received", "plan_approved",
     "plan_rejected", "step_decision_received", "execute_step", "analyze_results",
     "post_execution_decision", "all_steps_completed", "end_session"}

\* C36: routing is total.  After every node current_state is a value that
\* determine_next names, and the workflow is at END only with current_state
\* end_session: the fallback of determine_next is never taken.
C36_RoutingIsTotal ==
    /\ a2.current_state \in RoutedStates
    /\ a2node = "END" => a2.current_state = "end_session"

\* C37: plan[current_step_index] is defined wherever it is read or
\* overwritten.  execute_step is reached, and process_step_decision is
\* reached with the answer modify, only with current_step_index < len(plan);
\* no node raises, and the invocation is cut short only by the recursion limit.
C37_PlanIndexDefined ==
    /\ a2node = "execute_step" => PlanIndexDefined(a2)
    /\ (a2node = "process_step_decision" /\ TakesModify(a2)) => PlanIndexDefined(a2)
    /\ a2node = "raised" => a2steps >= Agent2RecursionLimit

\* the only step of a one-step plan was overwritten by modify and is about
\* to be executed
C37_Witness ==
    /\ a2node = "execute_step"
    /\ a2.plan = <<<<"ls">>>>
    /\ a2.current_step_index = 0
    /\ Lower(a2.user_input) = <<"modify", " ", "it">>

-----------------------------------------------------------------------------
(* Part 6: auto_troubleshoot_services_if_needed, up to its decision between *)
(* "all services are operational" and the troubleshooting request.  A      *)
(* category name is a sequence of atoms; structured_output.services maps   *)
(* the fields of ServicesOutput to an Optional list of ServiceStatus.      *)

\* ServiceStatus values: running, stopped, running with status Error,
\* running with status not found
Up == [name |-> "up", status |-> <<"ok">>, running |-> TRUE]
Stopped == [name |-> "stopped", status |-> <<"ok">>, running |-> FALSE]
Errored == [name |-> "errored", status |-> <<"Error">>, running |-> TRUE]
Missing == [name |-> "missing", status |-> <<"not found">>, running |-> TRUE]

\* the value of a field: null, or a list
Null == [null |-> TRUE, items |-> <<>>]
Listed(items) == [null |-> FALSE, items |-> items]

ServiceLists == {Listed(<<Up>>), Listed(<<Up, Stopped>>), Listed(<<Errored>>),
                 Listed(<<Missing>>)}

\* the fields of ServicesOutput: of src/utils/pydantic_class_utility.py, and
\* of src/agent.py; other_services is not Optional
OptionalFields(schema) ==
    IF schema = "utility"
    THEN {<<"kyc", "_services">>, <<"passkeys", "_services">>, <<"mt5", "_services">>,
          <<"hydra", "_services">>, <<"cli_http_service">>, <<"crypto", "_services">>}
    ELSE {<<"kyc", "_services">>, <<"passkeys", "_services">>, <<"crypto", "_services">>}

OtherServices == <<"other", "_services">>

ServicesOutput(schema) ==
    {f \in [OptionalFields(schema) \cup {OtherServices} -> ServiceLists \cup {Null}] :
        f[OtherServices] # Null}

service_categories ==
    << <<"kyc", "_services">>, <<"passkeys", "_services">>, <<"hydra", "_services">>,
       <<"general", "_services">> >>

\* getattr(structured_output.services, category, []) or []
CategoryServices(svcs, category) ==
    IF category \in DOMAIN svcs THEN svcs[category].items ELSE <<>>

\* not svc.running or svc.status.lower() in ["error", "not found"]
IsFailing(svc) == ~svc.running \/ Lower(svc.status) \in {<<"error">>, <<"not found">>}

\* category_failing
CategoryFailing(svcs, category) ==
    LET listed == SelectSeq(CategoryServices(svcs, category), IsFailing)
    IN  [i \in 1..Len(listed) |->
            [name |-> listed[i].name, category |-> Remove("_services", category)]]

\* failing_services after the loop over service_categories
RECURSIVE FailingServices(_, _)
FailingServices(svcs, categories) ==
    IF categories = <<>> THEN <<>>
    ELSE CategoryFailing(svcs, Head(categories)) \o FailingServices(svcs, Tail(categories))

\* what the function does with the report: it prints that all services are
\* operational and returns, or it asks the agent for troubleshooting steps
TroubleshootDecision(svcs) ==
    LET failing_services == FailingServices(svcs, service_categories)
    IN  [kind |-> "returned",
         failing_services |-> failing_services,
         outcome |-> IF failing_services = <<>>
                     THEN "all operational" ELSE "troubleshooting requested"]

ReportInit ==
    /\ EngineOff
    /\ ShellIdle
    /\ Agent2Off
    /\ LookupIdle
    /\ DriverOff
    /\ \E schema \in {"utility", "agent"} : services \in ServicesOutput(schema)
    /\ troubleshoot = NotCalled
    /\ probes = <<>>
    /\ status_record = NotCalled

AutoTroubleshootServicesIfNeeded ==
    /\ troubleshoot = NotCalled
    /\ troubleshoot' = TroubleshootDecision(services)
    /\ UNCHANGED services
    /\ UNCHANGED engineVars
    /\ UNCHANGED shellVars
    /\ UNCHANGED agent2Vars
    /\ UNCHANGED <<lookupVars, driverVars, healthVars>>

ReportNext == AutoTroubleshootServicesIfNeeded

ReportSpec == ReportInit /\ [][ReportNext]_vars

\* the services of the report that are failing, with their field
FailingOfReport ==
    {<<category, i>> \in (DOMAIN services) \X (1..2) :
        /\ i <= Len(services[category].items)
        /\ IsFailing(services[category].items[i])}

\* C38: every failing service of every category of the report is in the
\* failing list, and "all services are operational" is the outcome only when
\* no service of the report is failing.
C38_AllCategoriesChecked ==
    troubleshoot # NotCalled =>
        /\ \A f \in FailingOfReport :
              \E j \in DOMAIN troubleshoot.failing_services :
                 /\ troubleshoot.failing_services[j].name = services[f[1]].items[f[2]].name
                 /\ troubleshoot.failing_services[j].category = Remove("_services", f[1])
        /\ troubleshoot.outcome = "all operational" => FailingOfReport = {}

-----------------------------------------------------------------------------
(* Part 7: check_service_status.  probes holds what each subprocess.run     *)
(* would answer if it were reached: it raises, or it completes with a      *)
(* return code and a stdout (a sequence of atoms).                         *)

ServiceName == <<"kyc_health_check">>

\* subprocess.run raises
RunRaises == [raises |-> TRUE, returncode |-> 1, stdout |-> <<>>]

Completed(returncode, stdout) ==
    [raises |-> FALSE, returncode |-> returncode, stdout |-> stdout]

SystemctlOutcomes ==
    {RunRaises,
     Completed(0, <<"Loaded: loaded", "\n", "Active:", " ", "active (running)", " ",
                    "since", " ", "Mon", "\n">>),
     Completed(0, <<"Loaded: loaded", "\n", "Active:", " ", "inactive (dead)", "\n">>),
     Completed(0, <<"Loaded: masked", "\n">>),
     Completed(0, <<>>),
     Completed(3, <<>>),
     Completed(4, <<"Unit could not be found.", "\n">>)}

DockerOutcomes ==
    {RunRaises, Completed(0, <<>>), Completed(1, <<" ", "\n">>),
     Completed(0, <<"Up 2 hours", "\n">>)}

\* the rows kubectl prints for a pod, with and without the namespace column
PodRows ==
    {<<"kyc-pod", "1/1", "Running", "0", "5d">>,
     <<"kyc-pod", "0/1", "Pending", "3", "2m">>,
     <<"qa40", "kyc-pod", "1/1", "Running", "0", "5d">>,
     <<"qa40", "kyc-pod", "0/1", "CrashLoopBackOff", "7", "1h">>}

\* a row as text: its columns separated by blanks
RECURSIVE Spaced(_)
Spaced(columns) ==
    IF columns = <<>> THEN <<>>
    ELSE IF Len(columns) = 1 THEN columns
    ELSE <<Head(columns), " ", " ">> \o Spaced(Tail(columns))

\* kubectl raises, prints nothing, or prints a row, whole or cut short
KubectlOutcomes ==
    {RunRaises, Completed(1, <<>>)}
      \cup UNION {{Completed(0, Spaced(SubSeq(row, 1, n)) \o <<"\n">>) :
                      n \in 1..Len(row)} : row \in PodRows}

\* s.split(): the runs of non-blank atoms
Fields(s) == SelectSeq(s, LAMBDA a : a \notin Whitespace)

\* "Loaded: loaded" in process.stdout
IsLoaded(stdout) == Contains(<<"Loaded: loaded">>, stdout)

\* re.search(r'Active:\s+(.*?)(?:\s+since|\s*$)', process.stdout) matches
ActiveMatch(stdout) ==
    \E i \in 1..(Len(stdout) - 1) : stdout[i] = "Active:" /\ stdout[i + 1] \in Whitespace

\* the dict the function starts with
InitialResult(name) ==
    [name |-> name, status |-> <<"unknown">>, running |-> FALSE, message |-> <<>>,
     error |-> None]

\* the except branch: what the handler makes of the result so far
Handled(result, e) ==
    [result EXCEPT !.status = <<"error">>,
                   !.error = <<e>>,
                   !.message = <<"Error checking service: ", e>>]

\* the try block came to its end with this result
Done(result) == [raised |-> FALSE, result |-> result, exception |-> ""]

\* the try block was left by this exception, with the result as it was then
Thrown(result, e) == [raised |-> TRUE, result |-> result, exception |-> e]

\* the Kubernetes branch of src/tools/service_health_check_tool.py: columns
\* NAME READY STATUS RESTARTS AGE
KubernetesTools(result, stdout) ==
    LET pod_info == Fields(Strip(stdout))
        warning == [result EXCEPT !.status = <<"warning">>, !.running = FALSE]
    IN  IF Len(pod_info) >= 4
        THEN IF Len(pod_info) < 5
             THEN Thrown(result, "IndexError")
             ELSE LET pod_status == pod_info[3]
                      pod_restarts == pod_info[4]
                      pod_age == pod_info[5]
                  IN  IF Lower(<<pod_status>>) = <<"running">>
                      THEN Done([result EXCEPT
                                   !.status = <<"ok">>, !.running = TRUE,
                                   !.message = <<"Kubernetes pod running in namespace.",
                                                 "It's been up for ", pod_age,
                                                 ". Number of restarts: ", pod_restarts>>])
                      ELSE Done([warning EXCEPT
                                   !.message = <<"Kubernetes pod exists in namespace",
                                                 " but status is: ", pod_status,
                                                 ".It's been up for ", pod_age,
                                                 ". Number of restarts: ", pod_restarts>>])
        ELSE Thrown(warning, "UnboundLocalError")

\* the Kubernetes branch of src/service_health_check_tool.py: columns
\* NAMESPACE NAME READY STATUS RESTARTS AGE
KubernetesRoot(result, stdout) ==
    LET pod_info == Fields(Strip(stdout))
        warning == [result EXCEPT !.status = <<"warning">>, !.running = FALSE]
    IN  IF Len(pod_info) >= 4
        THEN LET pod_status == pod_info[4]
             IN  IF Lower(<<pod_status>>) = <<"running">>
                 THEN Done([result EXCEPT
                              !.status = <<"ok">>, !.running = TRUE,
                              !.message = <<"Kubernetes pod running in namespace">>])
                 ELSE Done([warning EXCEPT
                              !.message = <<"Kubernetes pod exists but status is: ",
                                            pod_status>>])
        ELSE Done([warning EXCEPT
                     !.message = <<"Kubernetes pod found but status unclear: ">>
                                   \o Strip(stdout)])

\* the try block
ProbeService(version, result, p) ==
    IF p.systemctl.raises THEN Thrown(result, "OSError")
    ELSE IF p.systemctl.returncode = 0
    THEN LET loaded == [result EXCEPT
                           !.status = IF IsLoaded(p.systemctl.stdout)
                                      THEN <<"ok">> ELSE <<"Not loaded">>]
         IN  IF ActiveMatch(p.systemctl.stdout)
             THEN Done([loaded EXCEPT
                          !.running = TRUE,
                          !.message = <<"System service: Loaded and running">>])
             ELSE Done(loaded)
    ELSE IF p.docker_ps.raises THEN Thrown(result, "OSError")
    ELSE IF Strip(p.docker_ps.stdout) # <<>>
    THEN Done([result EXCEPT
                 !.status = <<"ok">>, !.running = TRUE,
                 !.message = <<"Docker container: ">> \o Strip(p.docker_ps.stdout)])
    ELSE IF p.docker_ps_a.raises THEN Thrown(result, "OSError")
    ELSE IF Strip(p.docker_ps_a.stdout) # <<>>
    THEN Done([result EXCEPT
                 !.status = <<"warning">>, !.running = FALSE,
                 !.message = <<"Docker container exists but is not running: ">>
                               \o Strip(p.docker_ps_a.stdout)])
    ELSE IF p.kubectl.raises THEN Thrown(result, "OSError")
    ELSE IF Strip(p.kubectl.stdout) # <<>>
    THEN IF version = "tools"
         THEN KubernetesTools(result, p.kubectl.stdout)
         ELSE KubernetesRoot(result, p.kubectl.stdout)
    ELSE Done([result EXCEPT
                 !.status = <<"not found">>,
                 !.message = <<"Service not found in system services, Docker containers, or Kubernetes pods">>])

\* the function without its try/except
check_service_status_NoHandler(version, name, p) ==
    LET tried == ProbeService(version, InitialResult(name), p)
    IN  IF tried.raised
        THEN [kind |-> "raised", exception |-> tried.exception]
        ELSE Returned(tried.result)

check_service_status(version, name, p) ==
    LET tried == ProbeService(version, InitialResult(name), p)
    IN  IF tried.raised
        THEN Returned(Handled(tried.result, tried.exception))
        ELSE Returned(tried.result)

HealthInit ==
    /\ EngineOff
    /\ ShellIdle
    /\ Agent2Off
    /\ LookupIdle
    /\ DriverOff
    /\ services = <<>>
    /\ troubleshoot = NotCalled
    /\ \E version \in {"tools", "root"}, systemctl \in SystemctlOutcomes,
          docker_ps \in DockerOutcomes, docker_ps_a \in DockerOutcomes,
          kubectl \in KubectlOutcomes :
         probes = [version |-> version, systemctl |-> systemctl, docker_ps |-> docker_ps,
                   docker_ps_a |-> docker_ps_a, kubectl |-> kubectl]
    /\ status_record = NotCalled

CheckServiceStatus ==
    /\ status_record = NotCalled
    /\ status_record' = check_service_status(probes.version, ServiceName, probes)
    /\ UNCHANGED probes
    /\ UNCHANGED engineVars
    /\ UNCHANGED shellVars
    /\ UNCHANGED agent2Vars
    /\ UNCHANGED <<lookupVars, driverVars, reportVars>>

HealthNext == CheckServiceStatus

HealthSpec == HealthInit /\ [][HealthNext]_vars

-----------------------------------------------------------------------------
(* Properties of check_service_status *)

\* the probes the call reaches, in their order
ReachesDocker == ~probes.systemctl.raises /\ probes.systemctl.returncode # 0
ReachesDockerAll ==
    ReachesDocker /\ ~probes.docker_ps.raises /\ Strip(probes.docker_ps.stdout) = <<>>
ReachesKubectl ==
    ReachesDockerAll /\ ~probes.docker_ps_a.raises
       /\ Strip(probes.docker_ps_a.stdout) = <<>>

\* a probe the call reaches raises
ProbeFails ==
    \/ probes.systemctl.raises
    \/ ReachesDocker /\ probes.docker_ps.raises
    \/ ReachesDockerAll /\ probes.docker_ps_a.raises
    \/ ReachesKubectl /\ probes.kubectl.raises

\* every probe was reached, completed and found nothing
NothingFound ==
    /\ ReachesKubectl
    /\ ~probes.kubectl.raises
    /\ Strip(probes.kubectl.stdout) = <<>>

\* C39: check_service_status never raises.  Whatever systemctl, docker ps,
\* docker ps -a and kubectl answer (kubectl output cut short included), the
\* call returns a record with exactly the keys name, status, running,
\* message, error; when a probe it reaches fails the status is error and
\* error is set, and error is set only with status error; the status is
\* not found exactly when all four probes completed and found nothing.
C39_HealthCheckNeverRaises ==
    status_record # NotCalled =>
        /\ status_record.kind = "returned"
        /\ DOMAIN status_record.value = {"name", "status", "running", "message", "error"}
        /\ status_record.value.name = ServiceName
        /\ ProbeFails => status_record.value.status = <<"error">>
        /\ status_record.value.status = <<"error">> <=> status_record.value.error # None
        /\ status_record.value.status = <<"not found">> <=> NothingFound

\* kubectl printed a row cut short after three columns, and the call of
\* src/tools/service_health_check_tool.py returned an error record
C39_Witness ==
    /\ probes.version = "tools"
    /\ ReachesKubectl
    /\ ~probes.kubectl.raises
    /\ Len(Fields(probes.kubectl.stdout)) = 3
    /\ status_record.kind = "returned"
    /\ status_record.value.status = <<"error">>
    /\ status_record.value.error = <<"UnboundLocalError">>
    /\ ~status_record.value.running

====
